---- MODULE Spec2Model ----
(***************************************************************************)
(* RoleFit API: the analyze endpoint (apps/api/index.ts) and the Evaluator *)
(* (apps/api/evaluator.ts).  Texts are sequences of one-character strings, *)
(* so that trimming, fence stripping and JSON parsing are computed the way *)
(* the code computes them.                                                 *)
(***************************************************************************)
EXTENDS Integers, Sequences, FiniteSets, TLC

\* ------------------------------------------------------------------------
\* Characters and strings
\* ------------------------------------------------------------------------
\* the backtick character (the lexer accepts no backtick inside a string)
BT == "BACKTICK"
NL == "\n"
SP == " "
QT == "\""

\* the characters String.prototype.trim() and the regex class \s remove
WhiteSpace == {SP, NL, "\t", "\r"}

RECURSIVE TrimStart(_)
TrimStart(s) ==
    IF s # <<>> /\ Head(s) \in WhiteSpace THEN TrimStart(Tail(s)) ELSE s

RECURSIVE TrimEnd(_)
TrimEnd(s) ==
    IF s # <<>> /\ s[Len(s)] \in WhiteSpace
    THEN TrimEnd(SubSeq(s, 1, Len(s) - 1))
    ELSE s

\* a mutant of trim: removes one whitespace character at each end only
trimOnce(s) ==
    LET a == IF s # <<>> /\ Head(s) \in WhiteSpace THEN Tail(s) ELSE s
    IN  IF a # <<>> /\ a[Len(a)] \in WhiteSpace
        THEN SubSeq(a, 1, Len(a) - 1)
        ELSE a

\* String.prototype.trim()
trim(s) == TrimEnd(TrimStart(s))

\* s has p as a substring starting at index i (1-based)
HasAt(s, i, p) ==
    /\ i >= 1
    /\ i + Len(p) - 1 <= Len(s)
    /\ SubSeq(s, i, i + Len(p) - 1) = p

Fence == <<BT, BT, BT>>

\* ------------------------------------------------------------------------
\* parseAIResponse: the fenced-block pattern
\*   /^```(?:json|typescript|ts|javascript|js)?\s*\n?([\s\S]*?)\n?```$/
\* ------------------------------------------------------------------------
\* the alternation of the optional language tag, in the order it is tried
FenceTags ==
    << <<"j", "s", "o", "n">>,
       <<"t", "y", "p", "e", "s", "c", "r", "i", "p", "t">>,
       <<"t", "s">>,
       <<"j", "a", "v", "a", "s", "c", "r", "i", "p", "t">>,
       <<"j", "s">> >>

\* the length of the run of whitespace of t that starts at index i
RECURSIVE WsRun(_, _)
WsRun(t, i) ==
    IF i <= Len(t) /\ t[i] \in WhiteSpace THEN 1 + WsRun(t, i + 1) ELSE 0

\* The matcher is a backtracking search: it tries the tag alternatives in
\* order and then no tag, \s* with as many characters as it can take and then
\* fewer, \n? with a newline and then without, the capture with as few
\* characters as possible.  A match is the index p the capture starts after
\* and the index e it ends at.
NoMatch == [found |-> FALSE, p |-> 0, e |-> 0]
Match(p, e) == [found |-> TRUE, p |-> p, e |-> e]
OrElse(m, other) == IF m.found THEN m ELSE other

\* ([\s\S]*?)\n?```$ after index p: the shortest capture that the rest of
\* the pattern can follow ends 4 or 3 characters before the end of the text
MatchCapture(t, p) ==
    IF p <= Len(t) - 4 /\ HasAt(t, Len(t) - 3, <<NL>> \o Fence)
    THEN Match(p, Len(t) - 4)
    ELSE IF p <= Len(t) - 3 /\ HasAt(t, Len(t) - 2, Fence)
    THEN Match(p, Len(t) - 3)
    ELSE NoMatch

\* \n?([\s\S]*?)\n?```$ after index p
MatchNewline(t, p) ==
    OrElse(IF p + 1 <= Len(t) /\ t[p + 1] = NL
           THEN MatchCapture(t, p + 1)
           ELSE NoMatch,
           MatchCapture(t, p))

\* \s*\n?([\s\S]*?)\n?```$ after index a, \s* taking w characters or fewer
RECURSIVE MatchSpace(_, _, _)
MatchSpace(t, a, w) ==
    OrElse(MatchNewline(t, a + w),
           IF w = 0 THEN NoMatch ELSE MatchSpace(t, a, w - 1))

\* a mutant of MatchTag: the pattern has no language tag
MatchTagNone(t, k) == MatchSpace(t, 3, WsRun(t, 4))

\* (?:json|typescript|ts|javascript|js)?... after the opening fence, from
\* the tag alternative k on
RECURSIVE MatchTag(_, _)
MatchTag(t, k) ==
    IF k > Len(FenceTags) THEN MatchSpace(t, 3, WsRun(t, 4))
    ELSE IF HasAt(t, 4, FenceTags[k])
    THEN OrElse(MatchSpace(t, 3 + Len(FenceTags[k]),
                           WsRun(t, 4 + Len(FenceTags[k]))),
                MatchTag(t, k + 1))
    ELSE MatchTag(t, k + 1)

\* cleanText.match(codeFencePattern)
codeFencePattern(t) == IF HasAt(t, 1, Fence) THEN MatchTag(t, 1) ELSE NoMatch

\* match[1]
FenceCapture(t, m) == SubSeq(t, m.p + 1, m.e)

\* ------------------------------------------------------------------------
\* parseAIResponse: the residual cleanup  replace(/^`{1,3}|`{1,3}$/g, "")
\* ------------------------------------------------------------------------
RECURSIVE LeadingRun(_)
LeadingRun(s) ==
    IF s # <<>> /\ Head(s) = BT THEN 1 + LeadingRun(Tail(s)) ELSE 0

RECURSIVE TrailingRun(_)
TrailingRun(s) ==
    IF s # <<>> /\ s[Len(s)] = BT
    THEN 1 + TrailingRun(SubSeq(s, 1, Len(s) - 1))
    ELSE 0

Min(a, b) == IF a <= b THEN a ELSE b

\* a mutant of StripBackticks: the quantifiers are unbounded, the whole run
\* of backticks goes at each end
StripBacktickRuns(s) ==
    LET lead == LeadingRun(s)
        rest == SubSeq(s, lead + 1, Len(s))
        trail == TrailingRun(rest)
    IN  SubSeq(rest, 1, Len(rest) - trail)

\* a mutant of StripBackticks: the pattern has no anchors, every backtick goes
RECURSIVE StripEveryBacktick(_)
StripEveryBacktick(s) ==
    IF s = <<>> THEN <<>>
    ELSE (IF Head(s) = BT THEN <<>> ELSE <<Head(s)>>)
         \o StripEveryBacktick(Tail(s))

\* the first alternative matches at index 0 only and takes up to 3 backticks;
\* the search goes on after it, where only the second alternative can match:
\* up to 3 backticks that end the text
StripBackticks(s) ==
    LET lead == Min(3, LeadingRun(s))
        rest == SubSeq(s, lead + 1, Len(s))
        trail == Min(3, TrailingRun(rest))
    IN  SubSeq(rest, 1, Len(rest) - trail)

\* parseAIResponse, lines 277-285: from the match on
CleanMatched(cleanText, match) ==
    trim(StripBackticks(IF match.found /\ FenceCapture(cleanText, match) # <<>>
                        THEN trim(FenceCapture(cleanText, match))
                        ELSE cleanText))

\* parseAIResponse, lines 275-285: from the trimmed text on
CleanTrimmed(cleanText) == CleanMatched(cleanText, codeFencePattern(cleanText))

\* Evaluator.parseAIResponse
parseAIResponse(text) == CleanTrimmed(trim(text))

\* ------------------------------------------------------------------------
\* JSON.parse (JavaScript built-in, called at evaluator.ts:206).  Values are
\* records of one shape; ent holds the members of an object, in order, as
\* <<key, value>> pairs and the items of an array as <<index, value>> pairs.
\* Numbers are integer literals: no text of the model holds a fraction, an
\* exponent or a \u escape.
\* ------------------------------------------------------------------------
JNull == [t |-> "null", num |-> 0, str |-> <<>>, ent |-> <<>>]
JBool(b) == [t |-> "boolean", num |-> IF b THEN 1 ELSE 0, str |-> <<>>,
             ent |-> <<>>]
JNum(n) == [t |-> "number", num |-> n, str |-> <<>>, ent |-> <<>>]
JStr(s) == [t |-> "string", num |-> 0, str |-> s, ent |-> <<>>]
JObj(e) == [t |-> "object", num |-> 0, str |-> <<>>, ent |-> e]
JArr(e) == [t |-> "array", num |-> 0, str |-> <<>>, ent |-> e]

Digits == <<"0", "1", "2", "3", "4", "5", "6", "7", "8", "9">>
IsDigit(c) == \E k \in 1 .. 10 : Digits[k] = c
DigitVal(c) == (CHOOSE k \in 1 .. 10 : Digits[k] = c) - 1

ParseFail == [ok |-> FALSE, val |-> JNull, pos |-> 0]
ParseOk(v, p) == [ok |-> TRUE, val |-> v, pos |-> p]

\* the index of the first character at or after i that is not whitespace
RECURSIVE SkipWs(_, _)
SkipWs(s, i) ==
    IF i <= Len(s) /\ s[i] \in WhiteSpace THEN SkipWs(s, i + 1) ELSE i

\* the characters a backslash escape stands for
Unescape(c) ==
    CASE c = "n" -> NL
      [] c = "t" -> "\t"
      [] c = "r" -> "\r"
      [] OTHER -> c

\* a string literal whose opening quote is before index i
RECURSIVE ParseString(_, _, _)
ParseString(s, i, acc) ==
    IF i > Len(s) THEN ParseFail
    ELSE IF s[i] = QT THEN ParseOk(JStr(acc), i + 1)
    ELSE IF s[i] \in {NL, "\t", "\r"} THEN ParseFail
    ELSE IF s[i] = "\\"
         THEN IF i + 1 <= Len(s)
                 /\ s[i + 1] \in {QT, "\\", "/", "n", "t", "r"}
              THEN ParseString(s, i + 2, Append(acc, Unescape(s[i + 1])))
              ELSE ParseFail
    ELSE ParseString(s, i + 1, Append(acc, s[i]))

\* the digits of an integer literal from index i on, acc the value so far
RECURSIVE ParseDigits(_, _, _)
ParseDigits(s, i, acc) ==
    IF i <= Len(s) /\ IsDigit(s[i])
    THEN ParseDigits(s, i + 1, 10 * acc + DigitVal(s[i]))
    ELSE [val |-> acc, pos |-> i]

\* -? (0 | [1-9][0-9]*): the digits start at index j
NumberFrom(s, j, neg, d) ==
    IF j > Len(s) \/ ~IsDigit(s[j]) THEN ParseFail
    ELSE IF s[j] = "0" THEN ParseOk(JNum(0), j + 1)
    ELSE ParseOk(JNum(IF neg THEN 0 - d.val ELSE d.val), d.pos)

ParseNumber(s, i) ==
    IF s[i] = "-" THEN NumberFrom(s, i + 1, TRUE, ParseDigits(s, i + 1, 0))
    ELSE NumberFrom(s, i, FALSE, ParseDigits(s, i, 0))

RECURSIVE ParseValue(_, _)
RECURSIVE ParseMembers(_, _, _)
RECURSIVE ParseElements(_, _, _)
RECURSIVE AfterKey(_, _, _)
RECURSIVE AfterColon(_, _, _, _)
RECURSIVE AfterMember(_, _, _, _)
RECURSIVE AfterItem(_, _, _)
RECURSIVE AfterElement(_, _, _, _)

\* after the value v of a member: n is the index of the next token
AfterMember(s, v, n, ent) ==
    IF ~v.ok \/ n > Len(s) THEN ParseFail
    ELSE IF s[n] = "}" THEN ParseOk(JObj(ent), n + 1)
    ELSE IF s[n] = "," THEN ParseMembers(s, n + 1, ent)
    ELSE ParseFail

\* the value v of the member with the key `key` has been read
AfterColon(s, key, v, acc) ==
    AfterMember(s, v, SkipWs(s, v.pos), Append(acc, <<key.val.str, v.val>>))

\* the key of a member has been read: a colon and a value follow
AfterKey(s, key, acc) ==
    IF ~key.ok \/ SkipWs(s, key.pos) > Len(s) \/ s[SkipWs(s, key.pos)] # ":"
    THEN ParseFail
    ELSE AfterColon(s, key, ParseValue(s, SkipWs(s, SkipWs(s, key.pos) + 1)),
                    acc)

\* the members of an object from index i on (after the opening brace or a
\* comma), acc the members read so far
ParseMembers(s, i, acc) ==
    IF SkipWs(s, i) > Len(s) \/ s[SkipWs(s, i)] # QT THEN ParseFail
    ELSE AfterKey(s, ParseString(s, SkipWs(s, i) + 1, <<>>), acc)

\* after an item v of an array: n is the index of the next token
AfterElement(s, v, n, ent) ==
    IF ~v.ok \/ n > Len(s) THEN ParseFail
    ELSE IF s[n] = "]" THEN ParseOk(JArr(ent), n + 1)
    ELSE IF s[n] = "," THEN ParseElements(s, n + 1, ent)
    ELSE ParseFail

\* the item v of an array has been read
AfterItem(s, v, acc) ==
    AfterElement(s, v, SkipWs(s, v.pos), Append(acc, <<<<>>, v.val>>))

\* the items of an array from index i on, acc the items read so far
ParseElements(s, i, acc) == AfterItem(s, ParseValue(s, SkipWs(s, i)), acc)

\* a JSON value that starts at index i
ParseValue(s, i) ==
    IF i > Len(s) THEN ParseFail
    ELSE IF s[i] = "{"
         THEN IF SkipWs(s, i + 1) <= Len(s) /\ s[SkipWs(s, i + 1)] = "}"
              THEN ParseOk(JObj(<<>>), SkipWs(s, i + 1) + 1)
              ELSE ParseMembers(s, i + 1, <<>>)
    ELSE IF s[i] = "["
         THEN IF SkipWs(s, i + 1) <= Len(s) /\ s[SkipWs(s, i + 1)] = "]"
              THEN ParseOk(JArr(<<>>), SkipWs(s, i + 1) + 1)
              ELSE ParseElements(s, i + 1, <<>>)
    ELSE IF s[i] = QT THEN ParseString(s, i + 1, <<>>)
    ELSE IF s[i] = "-" \/ IsDigit(s[i]) THEN ParseNumber(s, i)
    ELSE IF HasAt(s, i, <<"t", "r", "u", "e">>)
         THEN ParseOk(JBool(TRUE), i + 4)
    ELSE IF HasAt(s, i, <<"f", "a", "l", "s", "e">>)
         THEN ParseOk(JBool(FALSE), i + 5)
    ELSE IF HasAt(s, i, <<"n", "u", "l", "l">>) THEN ParseOk(JNull, i + 4)
    ELSE ParseFail

\* the value v read from the start of text has to be all of it
WholeText(text, v) ==
    IF v.ok /\ SkipWs(text, v.pos) = Len(text) + 1
    THEN [ok |-> TRUE, val |-> v.val]
    ELSE [ok |-> FALSE, val |-> JNull]

\* JSON.parse(text): ok is FALSE where JSON.parse throws a SyntaxError
JSONparse(text) == WholeText(text, ParseValue(text, SkipWs(text, 1)))

\* ------------------------------------------------------------------------
\* JavaScript values read from parsed JSON
\* ------------------------------------------------------------------------
JUndefined == [t |-> "undefined", num |-> 0, str |-> <<>>, ent |-> <<>>]

\* typeof v
TypeOf(v) == IF v.t \in {"null", "array"} THEN "object" ELSE v.t

\* v is falsy: !v
Falsy(v) ==
    \/ v.t \in {"undefined", "null"}
    \/ v.t = "boolean" /\ v.num = 0
    \/ v.t = "number" /\ v.num = 0
    \/ v.t = "string" /\ v.str = <<>>

\* v[key] for a property name: the last member of an object with that key
Get(v, key) ==
    IF v.t = "object" /\ \E i \in 1 .. Len(v.ent) : v.ent[i][1] = key
    THEN LET i == CHOOSE i \in 1 .. Len(v.ent) :
                    /\ v.ent[i][1] = key
                    /\ \A j \in (i + 1) .. Len(v.ent) : v.ent[j][1] # key
         IN  v.ent[i][2]
    ELSE JUndefined

\* v?.[0]
Index0(v) ==
    IF v.t = "array" THEN IF v.ent = <<>> THEN JUndefined ELSE v.ent[1][2]
    ELSE IF v.t = "string"
         THEN IF v.str = <<>> THEN JUndefined ELSE JStr(<<v.str[1]>>)
    ELSE Get(v, <<"0">>)

K_score == <<"s", "c", "o", "r", "e">>
K_summary == <<"s", "u", "m", "m", "a", "r", "y">>
K_strengths == <<"s", "t", "r", "e", "n", "g", "t", "h", "s">>
K_gaps == <<"g", "a", "p", "s">>
K_suggestions == <<"s", "u", "g", "g", "e", "s", "t", "i", "o", "n", "s">>
K_candidates == <<"c", "a", "n", "d", "i", "d", "a", "t", "e", "s">>
K_content == <<"c", "o", "n", "t", "e", "n", "t">>
K_parts == <<"p", "a", "r", "t", "s">>
K_text == <<"t", "e", "x", "t">>

\* a mutant of isValidEvaluatorResult: the check of suggestions is missing
isValidWithoutSuggestions(result) ==
    /\ TypeOf(result) = "object"
    /\ result.t # "null"
    /\ TypeOf(Get(result, K_score)) = "number"
    /\ TypeOf(Get(result, K_summary)) = "string"
    /\ TypeOf(Get(result, K_strengths)) = "string"
    /\ TypeOf(Get(result, K_gaps)) = "string"

\* a mutant of isValidEvaluatorResult: the text fields are only checked to
\* be there
isValidPresenceOnly(result) ==
    /\ TypeOf(result) = "object"
    /\ result.t # "null"
    /\ TypeOf(Get(result, K_score)) = "number"
    /\ \A k \in {K_summary, K_strengths, K_gaps, K_suggestions} :
          Get(result, k).t # "undefined"

\* Evaluator.isValidEvaluatorResult
isValidEvaluatorResult(result) ==
    /\ TypeOf(result) = "object"
    /\ result.t # "null"
    /\ TypeOf(Get(result, K_score)) = "number"
    /\ TypeOf(Get(result, K_summary)) = "string"
    /\ TypeOf(Get(result, K_strengths)) = "string"
    /\ TypeOf(Get(result, K_gaps)) = "string"
    /\ TypeOf(Get(result, K_suggestions)) = "string"

\* ------------------------------------------------------------------------
\* Errors and envelopes
\* ------------------------------------------------------------------------
\* An error message is a sequence of fragments; includes() looks for one.
Includes(message, fragment) == \E i \in 1 .. Len(message) : message[i] = fragment

PDF_PHRASE == "Failed to extract text from PDF"

\* new Error(`Failed to extract text from PDF: ${inner}`)   (pdf.ts:22-24)
PdfError(inner) == [isError |-> TRUE, message |-> <<PDF_PHRASE, ": ">> \o inner]

\* the SyntaxError of JSON.parse: every engine's message names JSON and
\* quotes at most a few characters of the text
JsonSyntaxError ==
    [isError |-> TRUE, message |-> <<"Unexpected token in ", "JSON">>]

\* the TypeError of text.trim() on a value that is not a string
TrimTypeError ==
    [isError |-> TRUE, message |-> <<"text.trim is not a function">>]

NoError == [isError |-> FALSE, message |-> <<>>]

MSG_UNAVAILABLE ==
    "AI service is currently unavailable. Please try again later."
MSG_EMPTY == "AI service returned an empty response. Please try again."
MSG_INCOMPLETE == "AI returned incomplete analysis. Please try again."
MSG_SUCCESS == "Resume successfully analyzed! Check the results below."
MSG_PDF ==
    "Failed to read PDF content. Please ensure the files are valid PDFs and try again."
MSG_MALFORMED ==
    "Failed to process AI analysis. The AI response may be malformed or contain unexpected formatting."
MSG_UNEXPECTED ==
    "An unexpected error occurred during analysis. Please try again."
MSG_HANDLER == "Failed to process PDF files or evaluate resume"

Envelope(ok, message, result) ==
    [ok |-> ok, message |-> message, result |-> result]

NoEnvelope == Envelope(FALSE, "", JNull)

\* how a piece of code ends: it returns env, or it throws err
Returns(env) == [thrown |-> FALSE, err |-> NoError, env |-> env]
Throws(err) == [thrown |-> TRUE, err |-> err, env |-> NoEnvelope]

\* a mutant of the catch block: an error that is neither a PDF error nor a
\* JSON error is thrown again
evaluateCatchRethrow(error) ==
    IF error.isError /\ Includes(error.message, PDF_PHRASE)
    THEN Returns(Envelope(FALSE, MSG_PDF, JNull))
    ELSE IF error.isError /\ Includes(error.message, "JSON")
    THEN Returns(Envelope(FALSE, MSG_MALFORMED, JNull))
    ELSE Throws(error)

\* a mutant of the catch block: the JSON branch looks for "json"
evaluateCatchLowercase(error) ==
    IF error.isError /\ Includes(error.message, PDF_PHRASE)
    THEN Returns(Envelope(FALSE, MSG_PDF, JNull))
    ELSE IF error.isError /\ Includes(error.message, "json")
    THEN Returns(Envelope(FALSE, MSG_MALFORMED, JNull))
    ELSE Returns(Envelope(FALSE, MSG_UNEXPECTED, JNull))

\* a mutant of the catch block: the PDF branch tells the caller what the
\* extractor said
evaluateCatchExposeError(error) ==
    IF error.isError /\ Includes(error.message, PDF_PHRASE)
    THEN Returns(Envelope(FALSE, error.message[Len(error.message)], JNull))
    ELSE IF error.isError /\ Includes(error.message, "JSON")
    THEN Returns(Envelope(FALSE, MSG_MALFORMED, JNull))
    ELSE Returns(Envelope(FALSE, MSG_UNEXPECTED, JNull))

\* a mutant of the catch block: the JSON branch comes before the PDF branch
evaluateCatchJsonFirst(error) ==
    IF error.isError /\ Includes(error.message, "JSON")
    THEN Returns(Envelope(FALSE, MSG_MALFORMED, JNull))
    ELSE IF error.isError /\ Includes(error.message, PDF_PHRASE)
    THEN Returns(Envelope(FALSE, MSG_PDF, JNull))
    ELSE Returns(Envelope(FALSE, MSG_UNEXPECTED, JNull))

\* the catch block of Evaluator.evaluate
evaluateCatch(error) ==
    IF error.isError /\ Includes(error.message, PDF_PHRASE)
    THEN Returns(Envelope(FALSE, MSG_PDF, JNull))
    ELSE IF error.isError /\ Includes(error.message, "JSON")
    THEN Returns(Envelope(FALSE, MSG_MALFORMED, JNull))
    ELSE Returns(Envelope(FALSE, MSG_UNEXPECTED, JNull))

\* a mutant of textContentOf: the last candidate and its last part are read
IndexLast(v) ==
    IF v.t = "array" /\ v.ent # <<>> THEN v.ent[Len(v.ent)][2] ELSE JUndefined
textContentOfLast(response) ==
    Get(IndexLast(Get(Get(IndexLast(Get(response, K_candidates)), K_content),
                      K_parts)), K_text)

\* response.candidates?.[0]?.content?.parts?.[0]?.text
textContentOf(response) ==
    Get(Index0(Get(Get(Index0(Get(response, K_candidates)), K_content),
                   K_parts)), K_text)

\* a mutant of evaluateParsed: the score is clamped to 0..100
RECURSIVE ClampEntries(_)
ClampEntries(e) ==
    IF e = <<>> THEN <<>>
    ELSE << IF e[1][1] = K_score /\ e[1][2].t = "number"
            THEN <<K_score, JNum(IF e[1][2].num > 100 THEN 100
                                 ELSE IF e[1][2].num < 0 THEN 0
                                 ELSE e[1][2].num)>>
            ELSE e[1] >> \o ClampEntries(Tail(e))
ClampScore(v) == JObj(ClampEntries(v.ent))
evaluateParsedClamped(parsed) ==
    IF ~parsed.ok THEN Throws(JsonSyntaxError)
    ELSE IF ~isValidEvaluatorResult(parsed.val)
    THEN Returns(Envelope(FALSE, MSG_INCOMPLETE, JNull))
    ELSE Returns(Envelope(TRUE, MSG_SUCCESS, ClampScore(parsed.val)))

\* a mutant of evaluateParsed: an object that fails the shape check is
\* treated as a parse failure
evaluateParsedThrowInvalid(parsed) ==
    IF ~parsed.ok THEN Throws(JsonSyntaxError)
    ELSE IF ~isValidEvaluatorResult(parsed.val) THEN Throws(JsonSyntaxError)
    ELSE Returns(Envelope(TRUE, MSG_SUCCESS, parsed.val))

\* a mutant of evaluateParsed: the shape check reads result.score without
\* the test for null, and throws a TypeError on the literal null
evaluateParsedNoNullTest(parsed) ==
    IF ~parsed.ok THEN Throws(JsonSyntaxError)
    ELSE IF parsed.val.t = "null"
    THEN Throws([isError |-> TRUE,
                 message |-> <<"Cannot read properties of null">>])
    ELSE IF ~isValidEvaluatorResult(parsed.val)
    THEN Returns(Envelope(FALSE, MSG_INCOMPLETE, JNull))
    ELSE Returns(Envelope(TRUE, MSG_SUCCESS, parsed.val))

\* a mutant of evaluateParsed: the result is built from the five fields
PickFive(v) ==
    JObj(<< <<K_score, Get(v, K_score)>>, <<K_summary, Get(v, K_summary)>>,
            <<K_strengths, Get(v, K_strengths)>>, <<K_gaps, Get(v, K_gaps)>>,
            <<K_suggestions, Get(v, K_suggestions)>> >>)
evaluateParsedFiveOnly(parsed) ==
    IF ~parsed.ok THEN Throws(JsonSyntaxError)
    ELSE IF ~isValidEvaluatorResult(parsed.val)
    THEN Returns(Envelope(FALSE, MSG_INCOMPLETE, JNull))
    ELSE Returns(Envelope(TRUE, MSG_SUCCESS, PickFive(parsed.val)))

\* evaluate, lines 209-221: the parsed reply is validated
evaluateParsed(parsed) ==
    IF ~parsed.ok THEN Throws(JsonSyntaxError)
    ELSE IF ~isValidEvaluatorResult(parsed.val)
    THEN Returns(Envelope(FALSE, MSG_INCOMPLETE, JNull))
    ELSE Returns(Envelope(TRUE, MSG_SUCCESS, parsed.val))

\* evaluate, lines 194-206: the text is checked, cleaned and parsed
evaluateText(textContent) ==
    IF Falsy(textContent)
    THEN Returns(Envelope(FALSE, MSG_EMPTY, JNull))
    ELSE IF textContent.t # "string" THEN Throws(TrimTypeError)
    ELSE evaluateParsed(JSONparse(parseAIResponse(textContent.str)))

\* The try block of Evaluator.evaluate from the AI response on.  response is
\* JNull where queryGemini returned null.
evaluateResponse(response) ==
    IF Falsy(response)
    THEN Returns(Envelope(FALSE, MSG_UNAVAILABLE, JNull))
    ELSE evaluateText(textContentOf(response))

\* a try block that ends with `ended`, followed by the catch block
TryCatch(ended) == IF ended.thrown THEN evaluateCatch(ended.err) ELSE ended

\* ------------------------------------------------------------------------
\* The upload gate (index.ts:16-32) and text extraction (utils/pdf.ts)
\* ------------------------------------------------------------------------
MAX_FILE_SIZE == 5 * 1024 * 1024
ALLOWED_FILE_TYPES == {"application/pdf"}

\* An uploaded file: its declared type, its size, the document it holds and
\* what pdf-parse makes of it ("ok", or the text of the error it throws).
NoFile == [present |-> FALSE, type |-> "", size |-> 0, doc |-> "",
           pdf |-> "ok"]

MSG_REQUIRED == "Input not instance of File"
MSG_TOO_LARGE == "File size must be less than 5MB"
MSG_NOT_PDF == "Only PDF files are allowed"

\* a mutant of pdfFileSchema: the refinement on the type is missing
pdfFileSchemaNoType(file) ==
    IF ~file.present \/ file.size = 0 THEN <<MSG_REQUIRED>>
    ELSE IF file.size <= MAX_FILE_SIZE THEN <<>> ELSE <<MSG_TOO_LARGE>>

\* pdfFileSchema: the issues zod reports for a form field, none if it is
\* accepted.  zfd.file() turns an empty File into undefined before the
\* instance check; both refinements run on a File.
pdfFileSchema(file) ==
    IF ~file.present \/ file.size = 0 THEN <<MSG_REQUIRED>>
    ELSE (IF file.size <= MAX_FILE_SIZE THEN <<>> ELSE <<MSG_TOO_LARGE>>)
         \o (IF file.type \in ALLOWED_FILE_TYPES THEN <<>>
             ELSE <<MSG_NOT_PDF>>)

\* zfd.formData({cv: pdfFileSchema, jd: pdfFileSchema}) accepts the form
inputAccepted(f) == pdfFileSchema(f.cv) = <<>> /\ pdfFileSchema(f.jd) = <<>>

\* the arguments of evaluator.evaluate(cv, jd) as evaluate(jd, cv) names them
evaluateArgs(input) == [jd |-> input.cv, cv |-> input.jd]

\* pdfToText(file): the text of the document, or the error it throws
pdfToText(file) ==
    IF file.pdf = "ok"
    THEN [thrown |-> FALSE, err |-> NoError, text |-> file.doc]
    ELSE [thrown |-> TRUE, err |-> PdfError(<<file.pdf>>), text |-> ""]

\* a mutant of queryGemini: res.ok is not checked, the body of an error
\* response is returned as the data
queryGeminiNoStatusCheck(outcome) ==
    IF outcome.kind \in {"ok", "non2xx"} THEN outcome.body ELSE JNull

\* queryGemini: what it returns for what fetch did.  A rejected fetch, a
\* status that is not 2xx and a body res.json() cannot parse all end in the
\* catch block, which returns null.
queryGemini(outcome) == IF outcome.kind = "ok" THEN outcome.body ELSE JNull

\* ------------------------------------------------------------------------
\* Inputs: reply texts, AI responses, uploaded forms
\* ------------------------------------------------------------------------
RECURSIVE NatChars(_)
NatChars(n) ==
    IF n < 10 THEN <<Digits[n + 1]>>
    ELSE Append(NatChars(n \div 10), Digits[(n % 10) + 1])

RECURSIVE EscapeChars(_)
EscapeChars(s) ==
    IF s = <<>> THEN <<>>
    ELSE (CASE Head(s) = NL -> <<"\\", "n">>
            [] Head(s) = QT -> <<"\\", QT>>
            [] Head(s) = "\\" -> <<"\\", "\\">>
            [] OTHER -> <<Head(s)>>) \o EscapeChars(Tail(s))

Quoted(s) == <<QT>> \o EscapeChars(s) \o <<QT>>

\* the JSON text of a value, as the AI writes it
RECURSIVE Stringify(_)
RECURSIVE StringifyEntries(_, _)
StringifyEntries(e, isObject) ==
    IF e = <<>> THEN <<>>
    ELSE (IF isObject THEN Quoted(e[1][1]) \o <<":">> ELSE <<>>)
         \o Stringify(e[1][2])
         \o (IF Len(e) > 1 THEN <<",">> ELSE <<>>)
         \o StringifyEntries(Tail(e), isObject)
Stringify(v) ==
    CASE v.t = "null" -> <<"n", "u", "l", "l">>
      [] v.t = "boolean" ->
            IF v.num = 1 THEN <<"t", "r", "u", "e">>
            ELSE <<"f", "a", "l", "s", "e">>
      [] v.t = "number" ->
            IF v.num < 0 THEN <<"-">> \o NatChars(0 - v.num)
            ELSE NatChars(v.num)
      [] v.t = "string" -> Quoted(v.str)
      [] v.t = "object" -> <<"{">> \o StringifyEntries(v.ent, TRUE) \o <<"}">>
      [] v.t = "array" -> <<"[">> \o StringifyEntries(v.ent, FALSE) \o <<"]">>

ResultKeys == <<K_score, K_summary, K_strengths, K_gaps, K_suggestions>>

\* what a reply may hold for a field; JUndefined: the field is missing
ScoreOptions ==
    {JUndefined, JNull, JStr(<<"8", "5">>), JBool(TRUE),
     JNum(0 - 5), JNum(0), JNum(85), JNum(150)}
TextOptions ==
    {JUndefined, JNull, JNum(7), JStr(<<>>), JStr(<<"s">>),
     JStr(<<SP, BT, "a", NL, BT, SP>>)}
FieldOptions(k) == IF k = 1 THEN ScoreOptions ELSE TextOptions
GoodField(k) == IF k = 1 THEN JNum(85) ELSE JStr(<<"s">>)

\* the object with the fields f[1..5], the missing ones left out
RECURSIVE EntriesFrom(_, _)
EntriesFrom(f, k) ==
    IF k > Len(f) THEN <<>>
    ELSE (IF f[k].t = "undefined" THEN <<>> ELSE << <<ResultKeys[k], f[k]>> >>)
         \o EntriesFrom(f, k + 1)
MakeObject(f) == JObj(EntriesFrom(f, 1))

\* One field takes any option, each other field is good or missing.
ReplyObjects ==
    { MakeObject(f) :
        f \in UNION { { g \in [1 .. 5 -> ScoreOptions \cup TextOptions] :
                          /\ g[k] \in FieldOptions(k)
                          /\ \A j \in (1 .. 5) \ {k} :
                                g[j] \in {GoodField(j), JUndefined} }
                      : k \in 1 .. 5 } }

GoodObject == MakeObject([k \in 1 .. 5 |-> GoodField(k)])

\* objects with a member beyond the five, and with a member given twice
ExtraObjects ==
    { JObj(GoodObject.ent \o << <<<<"x">>, JNum(1)>> >>),
      JObj(<< <<K_score, JStr(<<"s">>)>> >> \o GoodObject.ent),
      JObj(GoodObject.ent \o << <<K_gaps, JNull>> >>) }

\* JSON texts that are not objects, and texts that are not JSON
OtherJson == { Stringify(v) : v \in {JNull, JNum(5), JStr(<<"s">>),
                                     JBool(TRUE), JArr(<<>>),
                                     JArr(<< <<<<>>, GoodObject>> >>)} }
NotJson ==
    { <<"h", "i">>, <<"{">>, <<SP>>, <<NL, SP>>, Fence, Fence \o Fence,
      <<"{", QT, "s", "c", "o", "r", "e", QT, ":">>,
      <<"{", "s", "c", "o", "r", "e", ":", "1", "}">>,
      SubSeq(Stringify(GoodObject), 1, Len(Stringify(GoodObject)) - 1),
      Stringify(GoodObject) \o <<",">>,
      <<"J", "S", "O", "N", ":", SP>> \o Stringify(GoodObject) }

\* A way of writing a reply: bare, or in a fence with a tag, whitespace
\* inside the fences and around them.
Bare == [fenced |-> FALSE, tag |-> <<>>, open |-> <<>>, close |-> <<>>,
         pad |-> <<>>]
Fenced(tag, open, close, pad) ==
    [fenced |-> TRUE, tag |-> tag, open |-> open, close |-> close,
     pad |-> pad]
Wrap(w, c) ==
    IF w.fenced
    THEN w.pad \o Fence \o w.tag \o w.open \o c \o w.close \o Fence \o w.pad
    ELSE w.pad \o c \o w.pad

\* the tags the pattern names, and one it does not
KnownTags == { FenceTags[k] : k \in 1 .. Len(FenceTags) }
KnownTagOrNone == KnownTags \cup {<<>>}
UnknownTag == <<"p", "y">>

ReplyWrappings ==
    { Bare,
      [Bare EXCEPT !.pad = <<NL>>],
      Fenced(<<>>, <<NL>>, <<NL>>, <<>>),
      Fenced(FenceTags[1], <<NL>>, <<NL>>, <<>>),
      Fenced(FenceTags[1], <<>>, <<>>, <<SP>>),
      Fenced(FenceTags[2], <<SP, NL>>, <<NL>>, <<>>),
      Fenced(FenceTags[5], <<NL>>, <<>>, <<>>),
      Fenced(UnknownTag, <<NL>>, <<NL>>, <<>>) }

\* the objects in which one field takes any option and the others are good
SingleFieldObjects ==
    { o \in ReplyObjects : Len(o.ent) >= 4 }

ReplyContents ==
    { Stringify(o) : o \in ReplyObjects \cup ExtraObjects }
    \cup OtherJson \cup NotJson

WrappedContents ==
    { Stringify(o) : o \in SingleFieldObjects \cup ExtraObjects }
    \cup OtherJson \cup NotJson

\* every content bare, and the contents of WrappedContents in every wrapping
ReplyTexts ==
    ReplyContents \cup { Wrap(w, c) : w \in ReplyWrappings, c \in WrappedContents }

\* the response whose candidates[0].content.parts[0].text is v
PartWith(v) == JObj(<< <<K_text, v>> >>)
CandidateWith(parts) ==
    JObj(<< <<K_content, JObj(<< <<K_parts, parts>> >>)>> >>)
RECURSIVE ItemEntries(_)
ItemEntries(s) ==
    IF s = <<>> THEN <<>>
    ELSE << <<<<>>, Head(s)>> >> \o ItemEntries(Tail(s))
Items(s) == JArr(ItemEntries(s))
ResponseWith(candidates) == JObj(<< <<K_candidates, candidates>> >>)
ResponseOfText(v) ==
    ResponseWith(Items(<<CandidateWith(Items(<<PartWith(v)>>))>>))

GoodText == JStr(Stringify(GoodObject))

\* responses in which a link of the path is absent or is not a text, and
\* responses with more candidates and parts than the first
OddResponses ==
    { JNull, JNum(0), JObj(<<>>),
      ResponseWith(JArr(<<>>)),
      ResponseWith(Items(<<JObj(<<>>)>>)),
      ResponseWith(Items(<<JObj(<< <<K_content, JObj(<<>>)>> >>)>>)),
      ResponseWith(Items(<<CandidateWith(JArr(<<>>))>>)),
      ResponseWith(Items(<<CandidateWith(Items(<<JObj(<<>>)>>))>>)),
      ResponseWith(Items(<<JObj(<<>>), CandidateWith(Items(<<PartWith(GoodText)>>))>>)),
      ResponseWith(Items(<<CandidateWith(Items(<<JObj(<<>>), PartWith(GoodText)>>))>>)),
      ResponseWith(Items(<<CandidateWith(Items(<<PartWith(GoodText),
                                                   PartWith(JStr(<<"h", "i">>))>>)),
                            CandidateWith(Items(<<PartWith(JStr(<<"{", "}">>))>>))>>)),
      ResponseOfText(JNull), ResponseOfText(JStr(<<>>)),
      ResponseOfText(JNum(0)), ResponseOfText(JNum(5)),
      ResponseOfText(JBool(TRUE)), ResponseOfText(GoodObject) }

AIResponses == { ResponseOfText(JStr(t)) : t \in ReplyTexts } \cup OddResponses

\* the body of a response whose status is not 2xx
ErrorBody ==
    JObj(<< <<<<"e", "r", "r", "o", "r">>, JStr(<<"q", "u", "o", "t", "a">>)>> >>)

\* what fetch and res.json() can do: fetch rejects, the status is not 2xx,
\* res.json() rejects, or the body is a JSON value
FetchOutcome(kind, body) == [kind |-> kind, body |-> body]
NoFetch == FetchOutcome("none", JNull)
FetchOutcomes(responses) ==
    { FetchOutcome(k, JNull) : k \in {"rejected", "badBody"} }
    \cup { FetchOutcome("non2xx", ErrorBody) }
    \cup { FetchOutcome("ok", b) : b \in responses }

AllFetchOutcomes == FetchOutcomes(AIResponses)

\* uploaded files: sizes around the ceiling, two declared types, documents
\* pdf-parse reads and documents it fails on
FileSizes == {0, MAX_FILE_SIZE - 1, MAX_FILE_SIZE, MAX_FILE_SIZE + 1}
FileTypes == {"application/pdf", "text/plain"}
PdfOutcomes == {"ok", "Invalid PDF structure", "JSON"}
FilesOf(doc) ==
    { [present |-> TRUE, type |-> t, size |-> z, doc |-> doc, pdf |-> p] :
        t \in FileTypes, z \in FileSizes, p \in PdfOutcomes } \cup {NoFile}
Forms == [cv : FilesOf("cv text"), jd : FilesOf("jd text")]
NoForm == [cv |-> NoFile, jd |-> NoFile]

\* ------------------------------------------------------------------------
\* State
\* ------------------------------------------------------------------------
ReqIds == {"r1", "r2"}

VARIABLES
    env,         \* process.env after dotenv: a name gives undefined or a string
    appConfig,   \* the exported appConfig object
    server,      \* the HTTP server: its state and the port it was given
    pc,          \* pc[r]: where request r is in analyze and evaluate
    form,        \* form[r]: the form data of request r
    jobText,     \* jobText[r]: the local jobText of evaluate
    resumeText,  \* resumeText[r]: the local resumeText of evaluate
    trace,       \* trace[r]: the calls of pdfToText and fetch, in order
    fetched,     \* fetched[r]: what fetch and res.json() did
    response,    \* response[r]: what queryGemini returned
    evalEnd,     \* evalEnd[r]: how evaluate ended
    reply,       \* reply[r]: what the endpoint answered
    nIn,         \* a content and a way of writing it (parseAIResponse alone)
    nOut,        \* the texts before and after each pass of parseAIResponse
    page,        \* the state of the PDFUpload component: cvFile, jobFile,
                 \* isAnalyzing, error, result, dragOver
    inFlight,    \* the forms of the analyze mutations that have not settled
    last,        \* the last event of the page
    shownFor     \* the form whose analysis gave the result on display

reqVars == <<pc, form, jobText, resumeText, trace, fetched, response,
             evalEnd, reply>>
normVars == <<nIn, nOut>>
cfgVars == <<env, appConfig, server>>
pageVars == <<page, inFlight, last, shownFor>>
\* what no step of a request writes
restVars == <<nIn, nOut, env, appConfig, server, page, inFlight, last,
              shownFor>>
vars == <<pc, form, jobText, resumeText, trace, fetched, response, evalEnd,
          reply, nIn, nOut, env, appConfig, server, page, inFlight, last,
          shownFor>>

\* ------------------------------------------------------------------------
\* Configuration (src/config.ts) and the start of the server
\* ------------------------------------------------------------------------
NaN == [t |-> "number", num |-> 0, str |-> <<"N", "a", "N">>, ent |-> <<>>]

\* parseInt(s, 10): leading whitespace and a sign are skipped, the digits
\* that follow are read, and anything after them is ignored
parseInt(s) ==
    LET t == TrimStart(s)
        signed == t # <<>> /\ Head(t) \in {"-", "+"}
        body == IF signed THEN Tail(t) ELSE t
    IN  IF body = <<>> \/ ~IsDigit(Head(body)) THEN NaN
        ELSE IF signed /\ Head(t) = "-"
        THEN JNum(0 - ParseDigits(body, 1, 0).val)
        ELSE JNum(ParseDigits(body, 1, 0).val)

\* a mutant of getEnvVar: only a variable that is not set is refused
getEnvVarUnsetOnly(name, defaultValue) ==
    IF env[name].t = "undefined" /\ Falsy(defaultValue)
    THEN [thrown |-> TRUE, value |-> JUndefined]
    ELSE [thrown |-> FALSE,
          value |-> IF env[name].t = "undefined" THEN defaultValue ELSE env[name]]

\* getEnvVar(name, defaultValue?): the value, or the throw of the Error
getEnvVar(name, defaultValue) ==
    IF Falsy(env[name]) /\ Falsy(defaultValue)
    THEN [thrown |-> TRUE, value |-> JUndefined]
    ELSE [thrown |-> FALSE,
          value |-> IF Falsy(env[name]) THEN defaultValue ELSE env[name]]

\* getOptionalEnvVar(name, defaultValue)
getOptionalEnvVar(name, defaultValue) ==
    IF Falsy(env[name]) THEN defaultValue ELSE env[name]

NoConfig ==
    [gemini |-> [apiUrl |-> JUndefined, apiKey |-> JUndefined],
     port |-> JUndefined]

\* the initializer of appConfig: apiUrl, apiKey and port in this order; the
\* module fails to load where getEnvVar throws
appConfigInit ==
    IF getEnvVar("GEMINI_API_URL", JUndefined).thrown
       \/ getEnvVar("GEMINI_API_KEY", JUndefined).thrown
    THEN [thrown |-> TRUE, config |-> NoConfig]
    ELSE [thrown |-> FALSE,
          config |->
            [gemini |-> [apiUrl |-> getEnvVar("GEMINI_API_URL", JUndefined).value,
                         apiKey |-> getEnvVar("GEMINI_API_KEY", JUndefined).value],
             port |-> parseInt(getOptionalEnvVar(
                          "PORT", JStr(<<"3", "0", "0", "1">>)).str)]]

\* the environments the process can start in
Envs ==
    [ GEMINI_API_URL : {JUndefined, JStr(<<>>), JStr(<<"u">>), JStr(<<"v">>)},
      GEMINI_API_KEY : {JUndefined, JStr(<<>>), JStr(<<"k">>)},
      PORT : {JUndefined, JStr(<<>>), JStr(<<"3", "0", "0", "1">>),
              JStr(<<"8", "0", "8", "0">>), JStr(<<"8", "0">>),
              JStr(<<SP, "8", "0">>), JStr(<<"8", "0", "p", "x">>),
              JStr(<<"a", "b", "c">>)} ]

\* the server is up on a full configuration: the state requests arrive in
ServerUp ==
    /\ env = [GEMINI_API_URL |-> JStr(<<"u">>), GEMINI_API_KEY |-> JStr(<<"k">>),
              PORT |-> JUndefined]
    /\ appConfig = [gemini |-> [apiUrl |-> JStr(<<"u">>), apiKey |-> JStr(<<"k">>)],
                    port |-> JNum(3001)]
    /\ server = [state |-> "listening", port |-> JNum(3001)]

\* the process starts: nothing is loaded yet
InitConfig ==
    /\ env \in Envs
    /\ appConfig = NoConfig
    /\ server = [state |-> "starting", port |-> JUndefined]

\* index.ts imports ./config: the module is evaluated once
LoadConfig ==
    /\ server.state = "starting"
    /\ appConfig' = appConfigInit.config
    /\ server' = [server EXCEPT !.state =
                     IF appConfigInit.thrown THEN "failed" ELSE "loaded"]
    /\ UNCHANGED <<env, reqVars, normVars, pageVars>>

\* server.listen(appConfig.port, ...): listen throws on a port that is not
\* a number from 0 to 65535
Listen ==
    /\ server.state = "loaded"
    /\ server' = IF appConfig.port = NaN \/ appConfig.port.num < 0
                    \/ appConfig.port.num > 65535
                 THEN [server EXCEPT !.state = "failed"]
                 ELSE [state |-> "listening", port |-> appConfig.port]
    /\ UNCHANGED <<env, appConfig, reqVars, normVars, pageVars>>

\* a call recorded in trace
Call(op, file, job, resume) ==
    [op |-> op, file |-> file, job |-> job, resume |-> resume]

\* what the endpoint answered: an envelope, or a BAD_REQUEST error that
\* carries the issues of the fields cv and jd
NoReply == [kind |-> "none", env |-> NoEnvelope, issues |-> <<>>]
NoEnd == [thrown |-> FALSE, err |-> NoError, env |-> NoEnvelope]

\* The state before any request; the requests in `live` can arrive.
InitRequests(live) ==
    /\ pc = [r \in ReqIds |-> IF r \in live THEN "idle" ELSE "off"]
    /\ form = [r \in ReqIds |-> NoForm]
    /\ jobText = [r \in ReqIds |-> ""]
    /\ resumeText = [r \in ReqIds |-> ""]
    /\ trace = [r \in ReqIds |-> <<>>]
    /\ fetched = [r \in ReqIds |-> NoFetch]
    /\ response = [r \in ReqIds |-> JUndefined]
    /\ evalEnd = [r \in ReqIds |-> NoEnd]
    /\ reply = [r \in ReqIds |-> NoReply]

\* the upload page as it is mounted: the initial values of its useState
\* calls, no mutation sent
NoMessage == ""
NoEvent == [kind |-> "none", type |-> "", file |-> NoFile]
PageIdle ==
    /\ page = [cvFile |-> NoFile, jobFile |-> NoFile, isAnalyzing |-> FALSE,
               error |-> NoMessage, result |-> JNull, dragOver |-> "none"]
    /\ inFlight = <<>>
    /\ last = NoEvent
    /\ shownFor = NoForm

NormIdle ==
    /\ nIn = [content |-> <<>>, wrap |-> [fenced |-> FALSE, tag |-> <<>>,
                                         open |-> <<>>, close |-> <<>>,
                                         pad |-> <<>>]]
    /\ nOut = [bare |-> <<>>, wrapped |-> <<>>]

Init == InitRequests({"r1"}) /\ NormIdle /\ ServerUp /\ PageIdle

\* ------------------------------------------------------------------------
\* The analyze endpoint and Evaluator.evaluate, step by step
\* ------------------------------------------------------------------------
\* a client posts a form to /analyze
Submit(r, forms) ==
    /\ pc[r] = "idle"
    /\ \E f \in forms : form' = [form EXCEPT ![r] = f]
    /\ pc' = [pc EXCEPT ![r] = "received"]
    /\ UNCHANGED <<jobText, resumeText, trace, fetched, response, evalEnd,
                   reply, restVars>>

\* .input(zfd.formData(...)): the resolver runs only on an accepted form;
\* a rejected form is answered with a BAD_REQUEST error
ValidateInput(r) ==
    /\ pc[r] = "received"
    /\ IF inputAccepted(form[r])
       THEN /\ pc' = [pc EXCEPT ![r] = "handler"]
            /\ UNCHANGED reply
       ELSE /\ pc' = [pc EXCEPT ![r] = "done"]
            /\ reply' = [reply EXCEPT ![r] =
                            [kind |-> "badRequest", env |-> NoEnvelope,
                             issues |-> pdfFileSchema(form[r].cv)
                                        \o pdfFileSchema(form[r].jd)]]
    /\ UNCHANGED <<form, jobText, resumeText, trace, fetched, response,
                   evalEnd, restVars>>

\* a mutant of ExtractFirst: a failed extraction is swallowed and evaluate
\* goes on with an empty text
ExtractFirstContinue(r) ==
    LET file == evaluateArgs(form[r]).jd
        res == pdfToText(file)
    IN  /\ pc[r] = "handler"
        /\ trace' = [trace EXCEPT ![r] =
                        Append(@, Call("pdfToText", file, "", ""))]
        /\ jobText' = [jobText EXCEPT ![r] = res.text]
        /\ pc' = [pc EXCEPT ![r] = "extracted1"]
        /\ UNCHANGED <<form, resumeText, fetched, response, evalEnd, reply,
                       restVars>>

\* evaluate, line 175: const jobText = await pdfToText(jd)
ExtractFirst(r) ==
    LET file == evaluateArgs(form[r]).jd
        res == pdfToText(file)
    IN  /\ pc[r] = "handler"
        /\ trace' = [trace EXCEPT ![r] =
                        Append(@, Call("pdfToText", file, "", ""))]
        /\ IF res.thrown
           THEN /\ evalEnd' = [evalEnd EXCEPT ![r] = TryCatch(Throws(res.err))]
                /\ pc' = [pc EXCEPT ![r] = "evaluated"]
                /\ UNCHANGED jobText
           ELSE /\ jobText' = [jobText EXCEPT ![r] = res.text]
                /\ pc' = [pc EXCEPT ![r] = "extracted1"]
                /\ UNCHANGED evalEnd
        /\ UNCHANGED <<form, resumeText, fetched, response, reply, restVars>>

\* evaluate, line 176: const resumeText = await pdfToText(cv)
ExtractSecond(r) ==
    LET file == evaluateArgs(form[r]).cv
        res == pdfToText(file)
    IN  /\ pc[r] = "extracted1"
        /\ trace' = [trace EXCEPT ![r] =
                        Append(@, Call("pdfToText", file, "", ""))]
        /\ IF res.thrown
           THEN /\ evalEnd' = [evalEnd EXCEPT ![r] = TryCatch(Throws(res.err))]
                /\ pc' = [pc EXCEPT ![r] = "evaluated"]
                /\ UNCHANGED resumeText
           ELSE /\ resumeText' = [resumeText EXCEPT ![r] = res.text]
                /\ pc' = [pc EXCEPT ![r] = "extracted2"]
                /\ UNCHANGED evalEnd
        /\ UNCHANGED <<form, jobText, fetched, response, reply, restVars>>

\* queryGemini, lines 107-133: the payload is built and fetch is called
FetchSend(r) ==
    /\ pc[r] = "extracted2"
    /\ trace' = [trace EXCEPT ![r] =
                    Append(@, Call("fetch", NoFile, jobText[r], resumeText[r]))]
    /\ pc' = [pc EXCEPT ![r] = "fetching"]
    /\ UNCHANGED <<form, jobText, resumeText, fetched, response, evalEnd,
                   reply, restVars>>

\* queryGemini, lines 136-157: fetch settles and queryGemini returns
FetchSettle(r, outcomes) ==
    /\ pc[r] = "fetching"
    /\ \E o \in outcomes :
        /\ fetched' = [fetched EXCEPT ![r] = o]
        /\ response' = [response EXCEPT ![r] = queryGemini(o)]
    /\ pc' = [pc EXCEPT ![r] = "responded"]
    /\ UNCHANGED <<form, jobText, resumeText, trace, evalEnd, reply, restVars>>

\* a mutant of ProcessResponse: the response is kept in a field of one
\* Evaluator that all requests share, so a request reads the response
\* another request has just stored there
ProcessResponseShared(r) ==
    /\ pc[r] = "responded"
    /\ evalEnd' = [evalEnd EXCEPT ![r] =
           TryCatch(evaluateResponse(
               IF \E q \in ReqIds \ {r} : pc[q] = "responded"
               THEN response[CHOOSE q \in ReqIds \ {r} : pc[q] = "responded"]
               ELSE response[r]))]
    /\ pc' = [pc EXCEPT ![r] = "evaluated"]
    /\ UNCHANGED <<form, jobText, resumeText, trace, fetched, response,
                   reply, restVars>>

\* evaluate, lines 182-259: from the response to the envelope
ProcessResponse(r) ==
    /\ pc[r] = "responded"
    /\ evalEnd' = [evalEnd EXCEPT ![r] =
                      TryCatch(evaluateResponse(response[r]))]
    /\ pc' = [pc EXCEPT ![r] = "evaluated"]
    /\ UNCHANGED <<form, jobText, resumeText, trace, fetched, response,
                   reply, restVars>>

\* the resolver of analyze, lines 62-73: it returns what evaluate returned,
\* or its own envelope if evaluate threw
HandlerReturn(r) ==
    /\ pc[r] = "evaluated"
    /\ reply' = [reply EXCEPT ![r] =
                    [kind |-> "envelope",
                     issues |-> <<>>,
                     env |-> IF evalEnd[r].thrown
                             THEN Envelope(FALSE, MSG_HANDLER, JNull)
                             ELSE evalEnd[r].env]]
    /\ pc' = [pc EXCEPT ![r] = "done"]
    /\ UNCHANGED <<form, jobText, resumeText, trace, fetched, response,
                   evalEnd, restVars>>

Next ==
    \E r \in ReqIds :
        \/ Submit(r, Forms)
        \/ ValidateInput(r)
        \/ ExtractFirst(r)
        \/ ExtractSecond(r)
        \/ FetchSend(r)
        \/ FetchSettle(r, AllFetchOutcomes)
        \/ ProcessResponse(r)
        \/ HandlerReturn(r)

Spec == Init /\ [][Next]_vars

\* ------------------------------------------------------------------------
\* parseAIResponse on its own: a content, a way of writing it, and the
\* texts that passes of parseAIResponse make of the content written bare
\* and written that way
\* ------------------------------------------------------------------------
MaxLen == 3
MaxPasses == 2

NormAlphabet == {BT, NL, SP, "j", "s", "o", "n", QT, "1"}

RECURSIVE SeqsUpTo(_, _)
SeqsUpTo(A, n) ==
    IF n = 0 THEN {<<>>}
    ELSE LET shorter == SeqsUpTo(A, n - 1)
         IN  shorter \cup { Append(q, c) : q \in { x \in shorter : Len(x) = n - 1 },
                                           c \in A }

\* longer contents: JSON texts, and contents that are fenced themselves
LongContents ==
    { Stringify(GoodObject), Stringify(JObj(<<>>)),
      Stringify(JStr(<<BT, BT, BT, BT>>)),
      Fence \o <<"1">> \o Fence,
      Fence \o FenceTags[1] \o <<NL, "1", NL>> \o Fence,
      Fence \o <<NL, "{", "}">> \o Fence \o <<BT>>,
      <<BT, BT, BT, BT, "1", BT, BT, BT, BT>>,
      <<BT, "1", BT, "1", BT, BT, BT, BT>>,
      <<"j", "s", "o", "n", "{", "}">>,
      <<SP, SP, SP, "{", "}", NL, NL, NL>>,
      <<SP, "1", BT, "1", NL>> }

NormContents == SeqsUpTo(NormAlphabet, MaxLen) \cup LongContents

NormWrappings ==
    { Bare }
    \cup { Fenced(tag, open, close, <<>>) :
            tag \in {<<>>, FenceTags[1], FenceTags[3], FenceTags[5], UnknownTag},
            open \in {<<>>, <<NL>>, <<SP>>},
            close \in {<<>>, <<NL>>} }
    \cup { Fenced(FenceTags[2], <<NL>>, <<NL>>, <<SP>>),
           Fenced(FenceTags[4], <<SP, NL>>, <<NL>>, <<>>) }

InitNorm ==
    /\ InitRequests({})
    /\ ServerUp
    /\ PageIdle
    /\ nIn \in [content : NormContents, wrap : NormWrappings]
    /\ nOut = [bare |-> <<nIn.content>>,
               wrapped |-> <<Wrap(nIn.wrap, nIn.content)>>]

\* one more pass of parseAIResponse over both texts
NormalizePass ==
    /\ Len(nOut.bare) <= MaxPasses
    /\ nOut' = [bare |-> Append(nOut.bare,
                                parseAIResponse(nOut.bare[Len(nOut.bare)])),
                wrapped |-> Append(nOut.wrapped,
                                   parseAIResponse(nOut.wrapped[Len(nOut.wrapped)]))]
    /\ UNCHANGED <<nIn, reqVars, cfgVars, pageVars>>

NextNorm == NormalizePass

SpecNorm == InitNorm /\ [][NextNorm]_vars

\* ------------------------------------------------------------------------
\* Two requests in flight at once, on fewer forms and AI responses: one of
\* each kind of upload and of each kind of answer, some kinds twice
\* ------------------------------------------------------------------------
PairFile(doc) ==
    [present |-> TRUE, type |-> "application/pdf", size |-> MAX_FILE_SIZE - 1,
     doc |-> doc, pdf |-> "ok"]

PairFiles(doc) ==
    { PairFile(doc),
      [PairFile(doc) EXCEPT !.pdf = "JSON"],
      [PairFile(doc) EXCEPT !.pdf = "Invalid PDF structure"],
      [PairFile(doc) EXCEPT !.type = "text/plain"],
      [PairFile(doc) EXCEPT !.size = MAX_FILE_SIZE + 1] }

PairForms ==
    [cv : PairFiles("cv text") \cup {PairFile("another cv text")},
     jd : PairFiles("jd text")]

PairOutcomes ==
    { FetchOutcome("rejected", JNull), FetchOutcome("badBody", JNull),
      FetchOutcome("non2xx", ErrorBody) }
    \cup { FetchOutcome("ok", b) :
             b \in { JNull, JObj(<<>>),
                     ResponseOfText(JStr(<<>>)),
                     ResponseOfText(JNum(5)),
                     ResponseOfText(JStr(<<"h", "i">>)),
                     ResponseOfText(JStr(<<"{">>)),
                     ResponseOfText(JStr(<<"{", "}">>)),
                     ResponseOfText(JStr(<<"5">>)),
                     ResponseOfText(JStr(Fence \o Stringify(GoodObject) \o Fence)),
                     ResponseOfText(GoodText) } }

InitPair == InitRequests(ReqIds) /\ NormIdle /\ ServerUp /\ PageIdle

NextPair ==
    \E r \in ReqIds :
        \/ Submit(r, PairForms)
        \/ ValidateInput(r)
        \/ ExtractFirst(r)
        \/ ExtractSecond(r)
        \/ FetchSend(r)
        \/ FetchSettle(r, PairOutcomes)
        \/ ProcessResponse(r)
        \/ HandlerReturn(r)

SpecPair == InitPair /\ [][NextPair]_vars

\* ------------------------------------------------------------------------
\* The start of the process on its own, from every environment
\* ------------------------------------------------------------------------
InitStart == InitRequests({}) /\ NormIdle /\ InitConfig /\ PageIdle

NextStart == LoadConfig \/ Listen

SpecStart == InitStart /\ [][NextStart]_vars

\* ------------------------------------------------------------------------
\* The upload page: the PDFUpload component, the useFileUpload hook and the
\* FileUploadBox and AnalysisResults components it renders
\* ------------------------------------------------------------------------
MSG_ONLY_PDF == "Please upload only PDF files"
MSG_SIZE_LIMIT == "File size must be less than 5MB"
MSG_BOTH_FILES == "Please upload both CV and Job Description files"
MSG_ANALYSIS_FAILED == "Analysis failed. Please try again."

\* a mutant of validatePDF: the size is not looked at
validatePDFTypeOnly(file) ==
    IF file.type # "application/pdf"
    THEN [isValid |-> FALSE, error |-> MSG_ONLY_PDF]
    ELSE [isValid |-> TRUE, error |-> NoMessage]

\* validatePDF(file)
validatePDF(file) ==
    IF file.type # "application/pdf"
    THEN [isValid |-> FALSE, error |-> MSG_ONLY_PDF]
    ELSE IF file.size > 5 * 1024 * 1024
    THEN [isValid |-> FALSE, error |-> MSG_SIZE_LIMIT]
    ELSE [isValid |-> TRUE, error |-> NoMessage]

\* useFileUpload().handleFileSelect(file, setError): the UploadedFile it
\* returns (NoFile for null) and the error it leaves set
useFileUpload_handleFileSelect(file) ==
    IF ~validatePDF(file).isValid
    THEN [uploadedFile |-> NoFile, error |-> validatePDF(file).error]
    ELSE [uploadedFile |-> file, error |-> NoMessage]

\* useFileUpload().handleDrop(e, setError) on the files of the drop event:
\* without a file nothing is validated and setError is not called
useFileUpload_handleDrop(files, error) ==
    IF Len(files) > 0 /\ files[1].present
    THEN useFileUpload_handleFileSelect(files[1])
    ELSE [uploadedFile |-> NoFile, error |-> error]

SlotOf(pg, type) == IF type = "cv" THEN pg.cvFile ELSE pg.jobFile

\* if (uploadedFile) { type === "cv" ? setCvFile(...) : setJobFile(...) }
StoreUploaded(pg, type, uploadedFile) ==
    IF ~uploadedFile.present THEN pg
    ELSE IF type = "cv" THEN [pg EXCEPT !.cvFile = uploadedFile]
    ELSE [pg EXCEPT !.jobFile = uploadedFile]

\* a mutant of analyzeDisabled: the button stays enabled during an analysis
analyzeDisabledFilesOnly(pg) == ~pg.cvFile.present \/ ~pg.jobFile.present

\* the disabled attribute of the analyze button
analyzeDisabled(pg) ==
    ~pg.cvFile.present \/ ~pg.jobFile.present \/ pg.isAnalyzing

\* a mutant of handleAnalyzeMissing: the loading state is set before the
\* files are looked at
handleAnalyzeMissingBusy(pg) ==
    [pg EXCEPT !.isAnalyzing = TRUE, !.error = MSG_BOTH_FILES]

\* handleAnalyze, lines 147-150: a file is missing
handleAnalyzeMissing(pg) == [pg EXCEPT !.error = MSG_BOTH_FILES]

\* a mutant of handleAnalyzeStart: the previous error is not cleared
handleAnalyzeStartKeepError(pg) ==
    [pg EXCEPT !.isAnalyzing = TRUE, !.result = JNull]

\* handleAnalyze, lines 153-155: the loading state is set, the previous
\* result and error are cleared
handleAnalyzeStart(pg) ==
    [pg EXCEPT !.isAnalyzing = TRUE, !.error = NoMessage, !.result = JNull]

\* the FormData handleAnalyze sends
formDataOf(pg) == [cv |-> pg.cvFile, jd |-> pg.jobFile]

\* how trpc.analyze.mutate settles: it rejects, or resolves with the
\* envelope the endpoint answered
Rejected == [rejected |-> TRUE, response |-> NoEnvelope]
Resolved(e) == [rejected |-> FALSE, response |-> e]

\* response.message || "Analysis failed. Please try again."
MessageOr(message) ==
    IF message = "" THEN MSG_ANALYSIS_FAILED ELSE message

\* a mutant of handleAnalyzeSettled: setIsAnalyzing(false) is the last
\* statement of the try block, not a finally block
handleAnalyzeSettledNoFinally(pg, outcome) ==
    IF outcome.rejected
    THEN [pg EXCEPT !.error = MSG_ANALYSIS_FAILED]
    ELSE IF outcome.response.ok /\ ~Falsy(outcome.response.result)
    THEN [pg EXCEPT !.result = outcome.response.result,
                    !.isAnalyzing = FALSE]
    ELSE [pg EXCEPT !.error = MessageOr(outcome.response.message),
                    !.isAnalyzing = FALSE]

\* handleAnalyze, lines 168-183: after the await
handleAnalyzeSettled(pg, outcome) ==
    IF outcome.rejected
    THEN [pg EXCEPT !.error = MSG_ANALYSIS_FAILED, !.isAnalyzing = FALSE]
    ELSE IF outcome.response.ok /\ ~Falsy(outcome.response.result)
    THEN [pg EXCEPT !.result = outcome.response.result,
                    !.isAnalyzing = FALSE]
    ELSE [pg EXCEPT !.error = MessageOr(outcome.response.message),
                    !.isAnalyzing = FALSE]

\* the files a user offers: two PDFs under and at the ceiling, an empty
\* PDF, a PDF over the ceiling and a text file
PdfOfSize(doc, size) ==
    [present |-> TRUE, type |-> "application/pdf", size |-> size,
     doc |-> doc, pdf |-> "ok"]
TextFile ==
    [present |-> TRUE, type |-> "text/plain", size |-> MAX_FILE_SIZE - 1,
     doc |-> "jd text", pdf |-> "ok"]
PageFiles ==
    { PdfOfSize("cv text", MAX_FILE_SIZE - 1),
      PdfOfSize("jd text", MAX_FILE_SIZE),
      PdfOfSize("cv text", 0),
      PdfOfSize("cv text", MAX_FILE_SIZE + 1),
      TextFile }
DropLists ==
    { <<>>, <<TextFile, PdfOfSize("cv text", MAX_FILE_SIZE - 1)>> }
    \cup { <<f>> : f \in PageFiles }
UploadTypes == {"cv", "job"}

\* what the endpoint answers to a form: a form its input schema rejects and
\* a request that fails on the way reject the mutation; an accepted form is
\* answered with an envelope of evaluate
PageEnvelopes ==
    { Envelope(TRUE, MSG_SUCCESS, GoodObject),
      Envelope(FALSE, MSG_UNAVAILABLE, JNull),
      Envelope(FALSE, MSG_PDF, JNull) }
MutateOutcomes(f) ==
    IF inputAccepted(f)
    THEN { Resolved(e) : e \in PageEnvelopes } \cup {Rejected}
    ELSE {Rejected}

\* the mutations that can be in flight at once in the model
MaxInFlight == 2

Event(kind, type, file) == [kind |-> kind, type |-> type, file |-> file]
RemoveAt(q, i) == SubSeq(q, 1, i - 1) \o SubSeq(q, i + 1, Len(q))

\* PDFUpload.handleFileSelect(file, type), from the onChange of an input
HandleFileSelect ==
    \E type \in UploadTypes, file \in PageFiles :
        /\ page' = [StoreUploaded(page, type,
                        useFileUpload_handleFileSelect(file).uploadedFile)
                    EXCEPT !.error =
                        useFileUpload_handleFileSelect(file).error]
        /\ last' = Event("select", type, file)
        /\ UNCHANGED <<inFlight, shownFor, reqVars, normVars, cfgVars>>

\* PDFUpload.handleDrop(e, type)
HandleDrop ==
    \E type \in UploadTypes, files \in DropLists :
        /\ page' = [StoreUploaded(page, type,
                        useFileUpload_handleDrop(files, page.error).uploadedFile)
                    EXCEPT !.error =
                        useFileUpload_handleDrop(files, page.error).error,
                           !.dragOver = "none"]
        /\ last' = Event("drop", type,
                         IF files = <<>> THEN NoFile ELSE files[1])
        /\ UNCHANGED <<inFlight, shownFor, reqVars, normVars, cfgVars>>

\* PDFUpload.handleDragOver(e, type)
HandleDragOver ==
    \E type \in UploadTypes :
        /\ page' = [page EXCEPT !.dragOver = type]
        /\ last' = Event("dragOver", type, NoFile)
        /\ UNCHANGED <<inFlight, shownFor, reqVars, normVars, cfgVars>>

\* PDFUpload.handleDragLeave(e)
HandleDragLeave ==
    /\ page' = [page EXCEPT !.dragOver = "none"]
    /\ last' = Event("dragLeave", "", NoFile)
    /\ UNCHANGED <<inFlight, shownFor, reqVars, normVars, cfgVars>>

\* PDFUpload.removeFile(type), from the button a filled box shows
RemoveFile ==
    \E type \in UploadTypes :
        /\ SlotOf(page, type).present
        /\ page' = IF type = "cv"
                   THEN [page EXCEPT !.cvFile = NoFile, !.error = NoMessage]
                   ELSE [page EXCEPT !.jobFile = NoFile, !.error = NoMessage]
        /\ last' = Event("remove", type, NoFile)
        /\ UNCHANGED <<inFlight, shownFor, reqVars, normVars, cfgVars>>

\* PDFUpload.handleAnalyze up to its await
HandleAnalyze ==
    /\ last' = Event("analyze", "", NoFile)
    /\ IF ~page.cvFile.present \/ ~page.jobFile.present
       THEN /\ page' = handleAnalyzeMissing(page)
            /\ UNCHANGED <<inFlight, shownFor>>
       ELSE /\ Len(inFlight) < MaxInFlight
            /\ page' = handleAnalyzeStart(page)
            /\ inFlight' = Append(inFlight, formDataOf(page))
            /\ shownFor' = NoForm
    /\ UNCHANGED <<reqVars, normVars, cfgVars>>

\* a click on the analyze button: a disabled button has no click
ClickAnalyze == ~analyzeDisabled(page) /\ HandleAnalyze

\* trpc.analyze.mutate settles and handleAnalyze runs to its end
MutateSettles ==
    \E i \in 1 .. Len(inFlight) :
        \E outcome \in MutateOutcomes(inFlight[i]) :
            /\ page' = handleAnalyzeSettled(page, outcome)
            /\ inFlight' = RemoveAt(inFlight, i)
            /\ shownFor' = IF handleAnalyzeSettled(page, outcome).result # page.result
                           THEN inFlight[i] ELSE shownFor
            /\ last' = Event("settle", "", NoFile)
            /\ UNCHANGED <<reqVars, normVars, cfgVars>>

\* the onReset of AnalysisResults, which is rendered while there is a result
OnReset ==
    /\ ~Falsy(page.result)
    /\ page' = [page EXCEPT !.result = JNull, !.cvFile = NoFile,
                            !.jobFile = NoFile, !.error = NoMessage]
    /\ shownFor' = NoForm
    /\ last' = Event("reset", "", NoFile)
    /\ UNCHANGED <<inFlight, reqVars, normVars, cfgVars>>

InitPage == InitRequests({}) /\ NormIdle /\ ServerUp /\ PageIdle

NextPage ==
    \/ HandleFileSelect
    \/ HandleDrop
    \/ HandleDragOver
    \/ HandleDragLeave
    \/ RemoveFile
    \/ ClickAnalyze
    \/ MutateSettles
    \/ OnReset

SpecPage == InitPage /\ [][NextPage]_vars

\* every mutation settles: the HTTP request is answered or fails
SpecPageLive == SpecPage /\ WF_vars(MutateSettles)

\* handleAnalyze called in any state of the component in which no analysis
\* runs, whatever the button shows
SlotFiles == { f \in PageFiles : validatePDF(f).isValid } \cup {NoFile}
InitHandlers ==
    /\ InitRequests({})
    /\ NormIdle
    /\ ServerUp
    /\ page \in [cvFile : SlotFiles, jobFile : SlotFiles,
                 isAnalyzing : {FALSE},
                 error : {NoMessage, MSG_ONLY_PDF, MSG_PDF},
                 result : {JNull, GoodObject}, dragOver : {"none"}]
    /\ page.error = MSG_PDF => Falsy(page.result)
    /\ inFlight = <<>>
    /\ last = NoEvent
    /\ shownFor = IF Falsy(page.result) THEN NoForm
                  ELSE [cv |-> PdfOfSize("cv text", MAX_FILE_SIZE - 1),
                        jd |-> PdfOfSize("jd text", MAX_FILE_SIZE)]

NextHandlers == HandleAnalyze \/ MutateSettles

SpecHandlers == InitHandlers /\ [][NextHandlers]_vars

\* ------------------------------------------------------------------------
\* Properties
\* ------------------------------------------------------------------------
\* evaluate of request r has ended
Evaluated(r) ==
    \/ pc[r] = "evaluated"
    \/ pc[r] = "done" /\ reply[r].kind = "envelope"

\* fetch of request r has settled
Settled(r) == pc[r] \in {"responded", "evaluated", "done"} /\ fetched[r].kind # "none"

\* the AI answered request r with a body whose payload is a text
HasReplyText(r) ==
    /\ Settled(r)
    /\ fetched[r].kind = "ok"
    /\ ~Falsy(fetched[r].body)
    /\ textContentOf(fetched[r].body).t = "string"

ReplyText(r) == textContentOf(fetched[r].body).str

Messages ==
    {MSG_UNAVAILABLE, MSG_EMPTY, MSG_INCOMPLETE, MSG_SUCCESS, MSG_PDF,
     MSG_MALFORMED, MSG_UNEXPECTED, MSG_HANDLER}

\* a non-null object with a score of type number and summary, strengths,
\* gaps and suggestions of type string
ShapeOk(v) ==
    /\ v.t = "object"
    /\ Get(v, K_score).t = "number"
    /\ \A k \in {K_summary, K_strengths, K_gaps, K_suggestions} :
          Get(v, k).t = "string"

\* C1: whatever the extractions, the transport and the reply do, evaluate
\* ends by returning an envelope {ok, message, result}, never by throwing,
\* and the analyze resolver answers with that envelope.
C1_EvaluateNeverThrows ==
    \A r \in ReqIds :
        /\ Evaluated(r) =>
            /\ ~evalEnd[r].thrown
            /\ evalEnd[r].env.ok \in BOOLEAN
            /\ evalEnd[r].env.message \in Messages
        /\ (pc[r] = "done" /\ reply[r].kind = "envelope") =>
            reply[r].env = evalEnd[r].env

\* C1 witness: a reply whose text is not a string made text.trim() throw,
\* and the request was answered with the envelope of the generic branch
C1_Witness ==
    \E r \in ReqIds :
        /\ pc[r] = "done"
        /\ reply[r].kind = "envelope"
        /\ fetched[r].kind = "ok"
        /\ reply[r].env.message = MSG_UNEXPECTED

\* C2: in every envelope evaluate returns, ok is true exactly when result
\* is not null, and a result that is not null passes the shape check.
C2_OkIffValidResult ==
    \A r \in ReqIds :
        Evaluated(r) =>
            /\ evalEnd[r].env.ok <=> evalEnd[r].env.result # JNull
            /\ evalEnd[r].env.result # JNull => ShapeOk(evalEnd[r].env.result)

\* C2 witness: an evaluation that succeeded, and so has a result
C2_Witness ==
    \E r \in ReqIds :
        /\ pc[r] = "done"
        /\ reply[r].kind = "envelope"
        /\ reply[r].env.ok
        /\ reply[r].env.result # JNull

\* C3: when fetch rejects or the status is not 2xx, queryGemini returns
\* null and evaluate returns ok=false, result=null and the message that the
\* AI service is unavailable, and no other message.
C3_TransportFailureUnavailable ==
    \A r \in ReqIds :
        (Settled(r) /\ fetched[r].kind \in {"rejected", "non2xx"}) =>
            /\ response[r] = JNull
            /\ Evaluated(r) =>
                /\ ~evalEnd[r].thrown
                /\ evalEnd[r].env = Envelope(FALSE, MSG_UNAVAILABLE, JNull)

\* C3 witness: a request whose fetch got a status that is not 2xx has been
\* answered
C3_Witness ==
    \E r \in ReqIds :
        /\ pc[r] = "done"
        /\ fetched[r].kind = "non2xx"
        /\ reply[r].kind = "envelope"

\* C4: a reply text that parses as a JSON object in which one of the five
\* fields is missing, null or of the wrong type is answered with ok=false,
\* result=null and the incomplete-analysis message.
C4_IncompleteObjectRejected ==
    \A r \in ReqIds :
        (Evaluated(r) /\ HasReplyText(r)
            /\ JSONparse(ReplyText(r)).ok
            /\ JSONparse(ReplyText(r)).val.t = "object"
            /\ ~ShapeOk(JSONparse(ReplyText(r)).val)) =>
                evalEnd[r].env = Envelope(FALSE, MSG_INCOMPLETE, JNull)

\* C4 witness: a reply object whose summary is null has been rejected as
\* incomplete
C4_Witness ==
    \E r \in ReqIds :
        /\ pc[r] = "done"
        /\ HasReplyText(r)
        /\ JSONparse(ReplyText(r)).ok
        /\ Get(JSONparse(ReplyText(r)).val, K_score).t = "number"
        /\ Get(JSONparse(ReplyText(r)).val, K_summary).t = "null"
        /\ reply[r].env.message = MSG_INCOMPLETE

\* C5 as stated: every reply text that is not parseable as JSON after
\* normalization is answered with the malformed-reply message.
C5_Original ==
    \A r \in ReqIds :
        (Evaluated(r) /\ HasReplyText(r)
            /\ ~JSONparse(parseAIResponse(ReplyText(r))).ok) =>
                evalEnd[r].env = Envelope(FALSE, MSG_MALFORMED, JNull)

\* C5 amended: every reply text that is not empty and is not parseable as
\* JSON after normalization is answered with ok=false, result=null and the
\* malformed-reply message, and no other message.
C5_NonEmptyUnparsableMalformed ==
    \A r \in ReqIds :
        (Evaluated(r) /\ HasReplyText(r)
            /\ ReplyText(r) # <<>>
            /\ ~JSONparse(parseAIResponse(ReplyText(r))).ok) =>
                evalEnd[r].env = Envelope(FALSE, MSG_MALFORMED, JNull)

\* C5 witness: a reply text of whitespace only has been answered with the
\* malformed-reply message
C5_Witness ==
    \E r \in ReqIds :
        /\ pc[r] = "done"
        /\ HasReplyText(r)
        /\ ReplyText(r) # <<>>
        /\ trim(ReplyText(r)) = <<>>
        /\ reply[r].env.message = MSG_MALFORMED

\* the characters of the language tags
TagLetters ==
    UNION { { FenceTags[k][i] : i \in 1 .. Len(FenceTags[k]) } :
            k \in 1 .. Len(FenceTags) }

\* the trimmed content is a fenced block itself
SelfFenced(c) ==
    /\ Len(trim(c)) >= 6
    /\ HasAt(trim(c), 1, Fence)
    /\ HasAt(trim(c), Len(trim(c)) - 2, Fence)

\* one pass of parseAIResponse has been made
Normalized == Len(nOut.bare) >= 2

\* C6 as stated: for any content and any fenced form of it, with any
\* language tag, parseAIResponse gives the same text for the fenced form as
\* for the content.
C6_Original ==
    (Normalized /\ nIn.wrap.fenced) => nOut.wrapped[2] = nOut.bare[2]

\* C6 amended: parseAIResponse gives the same text for a fenced form as for
\* its content if the tag is absent or one of json, typescript, ts,
\* javascript, js, the trimmed content is not empty and not a fenced block
\* itself, and the content is apart from the tag: whitespace follows the
\* opening fence and tag, or the content does not start with a letter of a
\* tag.
C6_KnownTagFenceRemoved ==
    (/\ Normalized
     /\ nIn.wrap.fenced
     /\ nIn.wrap.tag \in KnownTagOrNone
     /\ trim(nIn.content) # <<>>
     /\ ~SelfFenced(nIn.content)
     /\ \/ nIn.wrap.open # <<>>
        \/ Head(nIn.content) \notin TagLetters)
    => nOut.wrapped[2] = nOut.bare[2]

\* C6 witness: a content with a newline before it, fenced with the tag json,
\* came out as it comes out bare
C6_Witness ==
    /\ Normalized
    /\ nIn.wrap.fenced
    /\ nIn.wrap.tag = FenceTags[1]
    /\ nIn.wrap.open = <<NL>>
    /\ nIn.content = <<"1", BT, "1">>
    /\ nOut.wrapped[2] = nIn.content

\* the wrappings whose fence the pattern reads: no tag or one it names
ReadWrappings == { w \in ReplyWrappings : w.fenced => w.tag # UnknownTag }

\* the replies with a valid content: the text, and the object it was
\* written from
ValidReplies ==
    { <<Wrap(w, Stringify(o)), o>> :
        w \in ReadWrappings,
        o \in { v \in SingleFieldObjects \cup ExtraObjects : ShapeOk(v) } }

C8_IdempotentOnJson ==
    (Len(nOut.bare) >= 3 /\ JSONparse(nIn.content).ok) =>
        /\ nOut.bare[3] = nOut.bare[2]
        /\ JSONparse(nOut.bare[2]).ok
        /\ JSONparse(nOut.bare[3]) = JSONparse(nOut.bare[2])

\* C8 witness: two passes over a JSON text with whitespace around it
C8_Witness ==
    /\ Len(nOut.bare) >= 3
    /\ JSONparse(nIn.content).ok
    /\ nIn.content # trim(nIn.content)
    /\ nOut.bare[3] = trim(nIn.content)

\* C9 as stated: a text whose trimmed form does not match the fenced-block
\* pattern comes out of parseAIResponse as its trimmed form.
C9_Original ==
    (Normalized /\ ~codeFencePattern(trim(nIn.content)).found) =>
        nOut.bare[2] = trim(nIn.content)

\* C9 amended: a text whose trimmed form does not match the fenced-block
\* pattern and neither starts nor ends with a backtick comes out of
\* parseAIResponse as its trimmed form.
C9_UnfencedUnchanged ==
    (/\ Normalized
     /\ ~codeFencePattern(trim(nIn.content)).found
     /\ trim(nIn.content) # <<>>
        => (/\ Head(trim(nIn.content)) # BT
            /\ trim(nIn.content)[Len(trim(nIn.content))] # BT))
    => nOut.bare[2] = trim(nIn.content)

\* C9 witness: a text with whitespace around it and a backtick inside
C9_Witness ==
    /\ Normalized
    /\ nIn.content = <<SP, "1", BT, "1", NL>>
    /\ nOut.bare[2] = <<"1", BT, "1">>

\* a file passes the gate: it is there, declares application/pdf and is
\* within the ceiling
GateOk(file) ==
    /\ file.present
    /\ file.type = "application/pdf"
    /\ file.size <= 5 * 1024 * 1024

\* C10: text extraction and the AI request happen only for a form whose cv
\* and jd are both there and pass the gate; any other form is rejected
\* before any extraction or AI call.
C10_GateBeforeExtraction ==
    \A r \in ReqIds :
        /\ (trace[r] # <<>> \/ pc[r] \in {"handler", "extracted1", "extracted2",
                                         "fetching", "responded", "evaluated"})
            => (GateOk(form[r].cv) /\ GateOk(form[r].jd))
        /\ (pc[r] \notin {"off", "idle", "received"}
            /\ ~(GateOk(form[r].cv) /\ GateOk(form[r].jd)))
            => (/\ pc[r] = "done"
                /\ reply[r].kind = "badRequest"
                /\ trace[r] = <<>>)

\* C10 witness: a form whose jd is over the ceiling and whose cv passes has
\* been rejected
C10_Witness ==
    \E r \in ReqIds :
        /\ pc[r] = "done"
        /\ reply[r].kind = "badRequest"
        /\ GateOk(form[r].cv)
        /\ form[r].jd.present
        /\ form[r].jd.size > MAX_FILE_SIZE

\* the request has passed the input schema or has been turned away by it
Validated(r) == pc[r] \notin {"off", "idle", "received"}

\* C11 as stated: a file of 5242880 bytes or more is never accepted; the
\* request that carries one is rejected with "File size must be less than
\* 5MB".
C11_StrictlyUnderCeiling ==
    \A r \in ReqIds :
        Validated(r) =>
            \A file \in {form[r].cv, form[r].jd} :
                (file.present /\ file.size >= 5242880) =>
                    /\ reply[r].kind = "badRequest"
                    /\ Includes(reply[r].issues, MSG_TOO_LARGE)

\* C12 as stated: in the request sent to the AI the job description part
\* holds the text of the file uploaded as jd and the resume part holds the
\* text of the file uploaded as cv.
C12_TextsInTheirParts ==
    \A r \in ReqIds :
        \A i \in 1 .. Len(trace[r]) :
            trace[r][i].op = "fetch" =>
                /\ trace[r][i].job = form[r].jd.doc
                /\ trace[r][i].resume = form[r].cv.doc

\* C13: within one evaluation the calls are, in this order and each at most
\* once, the extraction of one file, the extraction of the other file and
\* one AI request; the second extraction happens only after the first
\* succeeded, the AI request only after both succeeded, and nothing is
\* called again after a failure.
C13_StepsInOrderOnce ==
    \A r \in ReqIds :
        /\ Len(trace[r]) <= 3
        /\ \A i \in 1 .. Len(trace[r]) :
              /\ trace[r][i].op = (IF i = 3 THEN "fetch" ELSE "pdfToText")
              /\ i <= 2 => trace[r][i].file \in {form[r].cv, form[r].jd}
              /\ i > 1 => trace[r][1].file.pdf = "ok"
              /\ i > 2 => trace[r][2].file.pdf = "ok"
        /\ Len(trace[r]) >= 2 =>
              {trace[r][1].file, trace[r][2].file} = {form[r].cv, form[r].jd}
        /\ Evaluated(r) =>
              \/ Len(trace[r]) = 3 /\ fetched[r].kind # "none"
              \/ /\ Len(trace[r]) < 3
                 /\ trace[r][Len(trace[r])].file.pdf # "ok"
                 /\ fetched[r].kind = "none"

\* C13 witness: an evaluation whose reply was malformed has ended after two
\* extractions and one AI request
C13_Witness ==
    \E r \in ReqIds :
        /\ pc[r] = "done"
        /\ Len(trace[r]) = 3
        /\ reply[r].env.message = MSG_MALFORMED

\* the AI answered request r with a body that is not falsy
HasResponse(r) ==
    /\ Settled(r)
    /\ fetched[r].kind = "ok"
    /\ ~Falsy(fetched[r].body)

\* the links of the path candidates[0].content.parts[0].text, one by one
FirstCandidate(body) == Index0(Get(body, K_candidates))
FirstPart(body) == Index0(Get(Get(FirstCandidate(body), K_content), K_parts))
FirstText(body) == Get(FirstPart(body), K_text)

ExtractionFailed(r) ==
    \E i \in 1 .. Len(trace[r]) :
        trace[r][i].op = "pdfToText" /\ trace[r][i].file.pdf # "ok"

\* C15: if the extraction of either file fails, evaluate returns ok=false,
\* result=null and the read-failure message, whatever the error of the
\* extractor says, also when it says JSON.
C15_ExtractionFailureReadMessage ==
    \A r \in ReqIds :
        (Evaluated(r) /\ ExtractionFailed(r)) =>
            /\ ~evalEnd[r].thrown
            /\ evalEnd[r].env = Envelope(FALSE, MSG_PDF, JNull)

\* C15 witness: the second extraction failed with an error that says JSON
\* and the request was answered with the read-failure message
C15_Witness ==
    \E r \in ReqIds :
        /\ pc[r] = "done"
        /\ Len(trace[r]) = 2
        /\ trace[r][2].file.pdf = "JSON"
        /\ reply[r].env.message = MSG_PDF

\* The failure condition of an answered request, read from what it was
\* given: its form, what the extractor made of the files, what fetch did and
\* the body of the response.  "none" is a success; "other" is a failure that
\* is none of the six conditions (a body that is falsy, a text that is not a
\* string).
ConditionOfText(text) ==
    IF Falsy(text) THEN "empty"
    ELSE IF text.t # "string" THEN "other"
    ELSE IF ~JSONparse(parseAIResponse(text.str)).ok THEN "malformed"
    ELSE IF ~ShapeOk(JSONparse(parseAIResponse(text.str)).val) THEN "incomplete"
    ELSE "none"

Condition(r) ==
    IF reply[r].kind = "badRequest" THEN "rejected"
    ELSE IF ExtractionFailed(r) THEN "extraction"
    ELSE IF fetched[r].kind \in {"rejected", "non2xx", "badBody"} THEN "unavailable"
    ELSE IF Falsy(fetched[r].body) THEN "other"
    ELSE ConditionOfText(FirstText(fetched[r].body))

SixConditions ==
    {"rejected", "extraction", "unavailable", "empty", "malformed", "incomplete"}

\* request r has been answered with a failure of one of the six conditions
Failed(r) == pc[r] = "done" /\ Condition(r) \in SixConditions

\* what the caller is told: the message of the envelope, or the issues of
\* the BAD_REQUEST error
MessageTo(r) ==
    IF reply[r].kind = "badRequest" THEN reply[r].issues
    ELSE <<reply[r].env.message>>

\* C16 as stated: two requests that fail with different conditions never
\* get the same message, and two that fail with the same condition always
\* get the same message.
C16_Original ==
    \A r1, r2 \in ReqIds :
        (Failed(r1) /\ Failed(r2)) =>
            (Condition(r1) = Condition(r2) <=> MessageTo(r1) = MessageTo(r2))

\* C16 amended: two requests that fail with different conditions never get
\* the same message, and two that fail with the same condition other than
\* a rejected upload always get the same message; a rejected upload is told
\* the issues of its files.
C16_OwnMessagePerCondition ==
    \A r1, r2 \in ReqIds :
        (Failed(r1) /\ Failed(r2)) =>
            /\ Condition(r1) # Condition(r2) => MessageTo(r1) # MessageTo(r2)
            /\ (Condition(r1) = Condition(r2) /\ Condition(r1) # "rejected")
                  => MessageTo(r1) = MessageTo(r2)
            /\ Condition(r1) = "rejected" =>
                  /\ reply[r1].issues # <<>>
                  /\ \A i \in 1 .. Len(reply[r1].issues) :
                        reply[r1].issues[i]
                          \in {MSG_REQUIRED, MSG_TOO_LARGE, MSG_NOT_PDF}

\* C16 witness: both requests failed as malformed, on different reply
\* texts, and were told the malformed-reply message
C16_Witness ==
    /\ Failed("r1") /\ Failed("r2")
    /\ Condition("r1") = "malformed"
    /\ Condition("r2") = "malformed"
    /\ fetched["r1"] # fetched["r2"]
    /\ reply["r1"].env.message = MSG_MALFORMED

\* the messages of the four named conditions
FourMessages == {MSG_UNAVAILABLE, MSG_EMPTY, MSG_MALFORMED, MSG_INCOMPLETE}

\* the text payload of the response of request r is there and is not a
\* string
PayloadNotText(r) ==
    /\ HasResponse(r)
    /\ ~Falsy(FirstText(fetched[r].body))
    /\ FirstText(fetched[r].body).t # "string"

\* C17 as stated: every ok=false envelope produced after fetch settled
\* carries the message of one of the four named conditions.
C17_Original ==
    \A r \in ReqIds :
        (Evaluated(r) /\ Settled(r) /\ ~evalEnd[r].env.ok) =>
            evalEnd[r].env.message \in FourMessages

\* C17 amended: every ok=false envelope produced after fetch settled
\* carries the message of one of the four named conditions, except that a
\* text payload that is not a string is answered with the generic
\* unexpected-error message; a payload that is a string never is.
C17_FourMessagesOrGeneric ==
    \A r \in ReqIds :
        (Evaluated(r) /\ Settled(r) /\ ~evalEnd[r].env.ok) =>
            /\ ~evalEnd[r].thrown
            /\ evalEnd[r].env.result = JNull
            /\ IF PayloadNotText(r)
               THEN evalEnd[r].env.message = MSG_UNEXPECTED
               ELSE evalEnd[r].env.message \in FourMessages

\* C17 witness: a response whose text is the number 5 has been answered
\* with the generic message
C17_Witness ==
    \E r \in ReqIds :
        /\ pc[r] = "done"
        /\ HasResponse(r)
        /\ FirstText(fetched[r].body) = JNum(5)
        /\ reply[r].env.message = MSG_UNEXPECTED

\* how evaluate ends when it runs alone on the files of form f and fetch
\* does o: the steps of evaluate one after the other
AloneEnd(f, o) ==
    IF pdfToText(evaluateArgs(f).jd).thrown
    THEN TryCatch(Throws(pdfToText(evaluateArgs(f).jd).err))
    ELSE IF pdfToText(evaluateArgs(f).cv).thrown
    THEN TryCatch(Throws(pdfToText(evaluateArgs(f).cv).err))
    ELSE TryCatch(evaluateResponse(queryGemini(o)))

\* C18: with two requests in flight in any interleaving, each request ends
\* and is answered as it would be alone with its own two files and its own
\* AI response, and the AI request of each carries the texts of its own
\* files.
C18_NoInterference ==
    \A r \in ReqIds :
        /\ Evaluated(r) => evalEnd[r] = AloneEnd(form[r], fetched[r])
        /\ (pc[r] = "done" /\ reply[r].kind = "envelope") =>
              reply[r].env = AloneEnd(form[r], fetched[r]).env
        /\ \A i \in 1 .. Len(trace[r]) :
              trace[r][i].op = "fetch" =>
                  {trace[r][i].job, trace[r][i].resume}
                      = {form[r].cv.doc, form[r].jd.doc}

\* C18 witness: one request has ended in a success while the other, sent
\* with another cv, is in flight with a response that is null
C18_Witness ==
    /\ pc["r1"] = "evaluated"
    /\ evalEnd["r1"].env.ok
    /\ pc["r2"] = "responded"
    /\ response["r2"] = JNull
    /\ form["r1"].cv.doc # form["r2"].cv.doc

\* C19: the configuration is resolved once, at the start: with
\* GEMINI_API_URL or GEMINI_API_KEY unset or empty the load throws and the
\* server never listens; once loaded, the configuration holds the URL and
\* the key of the environment, and the port 3001 where PORT is unset or
\* empty, and stays so; the server listens on the configured port.
C19_ConfigResolvedAtStart ==
    /\ (Falsy(env.GEMINI_API_URL) \/ Falsy(env.GEMINI_API_KEY)) =>
          /\ server.state \in {"starting", "failed"}
          /\ appConfig = NoConfig
    /\ server.state \in {"loaded", "listening"} =>
          /\ appConfig.gemini.apiUrl = env.GEMINI_API_URL
          /\ appConfig.gemini.apiKey = env.GEMINI_API_KEY
          /\ Falsy(env.PORT) => appConfig.port = JNum(3001)
    /\ server.state = "listening" => server.port = appConfig.port

\* C19 witness: with PORT set to the empty string the server listens on
\* 3001
C19_Witness ==
    /\ env.PORT = JStr(<<>>)
    /\ server.state = "listening"
    /\ server.port = JNum(3001)

\* evaluate of request r has ended in a failure
EvaluateFailed(r) == Evaluated(r) /\ ~evalEnd[r].env.ok

\* C20: the envelope of a failed evaluation holds a null result and one of
\* the constant messages, and two evaluations that fail with the same
\* condition return the same envelope whatever their reply texts, error
\* texts and documents are.
C20_ConstantMessagePerCondition ==
    \A r1, r2 \in ReqIds :
        (EvaluateFailed(r1) /\ EvaluateFailed(r2)) =>
            /\ evalEnd[r1].env.message
                  \in {MSG_PDF, MSG_UNAVAILABLE, MSG_EMPTY, MSG_MALFORMED,
                       MSG_INCOMPLETE, MSG_UNEXPECTED}
            /\ evalEnd[r1].env.result = JNull
            /\ (Condition(r1) = Condition(r2) /\ Condition(r1) \in SixConditions)
                  => evalEnd[r1].env = evalEnd[r2].env

\* C20 witness: two evaluations failed on the extraction of different
\* documents with errors that say different things, and both were answered
\* with the same envelope
C20_Witness ==
    /\ pc["r1"] = "done" /\ pc["r2"] = "done"
    /\ Len(trace["r1"]) = 1 /\ Len(trace["r2"]) = 2
    /\ trace["r1"][1].file.pdf = "JSON"
    /\ trace["r2"][2].file.pdf = "Invalid PDF structure"
    /\ trace["r1"][1].file.doc # trace["r2"][2].file.doc
    /\ reply["r1"].env = reply["r2"].env

\* the names of the members of an object
KeysOf(v) == { v.ent[i][1] : i \in 1 .. Len(v.ent) }

FiveKeys == { ResultKeys[k] : k \in 1 .. 5 }

\* C21 as stated: the result returned on success carries the five fields
\* and no others.
C21_Original ==
    \A r \in ReqIds :
        (Evaluated(r) /\ evalEnd[r].env.ok) =>
            KeysOf(evalEnd[r].env.result) = FiveKeys

\* C21 amended: the result returned on success carries the five fields,
\* and a reply object with the five fields and further members is accepted
\* and returned with every member it has.
C21_FiveFieldsAndTheRest ==
    \A r \in ReqIds :
        (Evaluated(r) /\ HasReplyText(r)) =>
            /\ evalEnd[r].env.ok =>
                  /\ FiveKeys \subseteq KeysOf(evalEnd[r].env.result)
                  /\ ShapeOk(evalEnd[r].env.result)
            /\ \A o \in ExtraObjects, w \in ReadWrappings :
                  (ShapeOk(o) /\ ReplyText(r) = Wrap(w, Stringify(o))) =>
                      /\ evalEnd[r].env.ok
                      /\ evalEnd[r].env.result = o

\* C21 witness: a reply with a sixth member x has been answered with a
\* result that holds x
C21_Witness ==
    \E r \in ReqIds :
        /\ pc[r] = "done"
        /\ reply[r].env.ok
        /\ <<"x">> \in KeysOf(reply[r].env.result)
        /\ Get(reply[r].env.result, <<"x">>) = JNum(1)

\* C22: a reply text that parses as JSON to the literal null, a number, a
\* string, a boolean or an array is answered with ok=false, result=null
\* and the incomplete-analysis message, by a return and not by a throw.
C22_NonObjectIncomplete ==
    \A r \in ReqIds :
        (Evaluated(r) /\ HasReplyText(r)
            /\ JSONparse(parseAIResponse(ReplyText(r))).ok
            /\ JSONparse(parseAIResponse(ReplyText(r))).val.t
                  \in {"null", "number", "string", "boolean", "array"}) =>
                /\ ~evalEnd[r].thrown
                /\ evalEnd[r].env = Envelope(FALSE, MSG_INCOMPLETE, JNull)

\* C22 witness: the reply null has been rejected as incomplete
C22_Witness ==
    \E r \in ReqIds :
        /\ pc[r] = "done"
        /\ HasReplyText(r)
        /\ ReplyText(r) = <<"n", "u", "l", "l">>
        /\ reply[r].env.message = MSG_INCOMPLETE

\* the text parseAIResponse hands to the residual cleanup (lines 269-280)
BeforeCleanupOf(cleanText, match) ==
    IF match.found /\ FenceCapture(cleanText, match) # <<>>
    THEN trim(FenceCapture(cleanText, match))
    ELSE cleanText

BeforeCleanup(text) == BeforeCleanupOf(trim(text), codeFencePattern(trim(text)))

BtRun(n) == [k \in 1 .. n |-> BT]

\* out is c without i backticks at its start and j at its end, trimmed
EndsOnly(c, out) ==
    \E i, j \in 0 .. 3 :
        /\ i + j <= Len(c)
        /\ SubSeq(c, 1, i) = BtRun(i)
        /\ SubSeq(c, Len(c) - j + 1, Len(c)) = BtRun(j)
        /\ out = trim(SubSeq(c, i + 1, Len(c) - j))

\* C23: in every pass of parseAIResponse the residual cleanup takes at most
\* 3 backticks from the very start and at most 3 from the very end of the
\* text it is given, and everything between them, backticks included, is
\* in the normalized text unchanged.
C23_ResidualAtEndsOnly ==
    /\ \A k \in 1 .. Len(nOut.bare) - 1 :
            EndsOnly(BeforeCleanup(nOut.bare[k]), nOut.bare[k + 1])
    /\ \A k \in 1 .. Len(nOut.wrapped) - 1 :
            EndsOnly(BeforeCleanup(nOut.wrapped[k]), nOut.wrapped[k + 1])

\* C23 witness: of a text with 1 backtick at its start, 1 inside and 4 at
\* its end, one pass has taken the first and the last 3 and kept the others
C23_Witness ==
    /\ Len(nOut.bare) >= 2
    /\ nOut.bare[1] = <<BT, "1", BT, "1", BT, BT, BT, BT>>
    /\ nOut.bare[2] = <<"1", BT, "1", BT>>

\* the page shows a result
HasResult == ~Falsy(page.result)

\* the step starts an analyze mutation / ends one
StartsRequest == Len(inFlight') > Len(inFlight)
EndsRequest == Len(inFlight') < Len(inFlight)

C25_MissingFileNoRequest ==
    [][(last'.kind = "analyze"
            /\ (~page.cvFile.present \/ ~page.jobFile.present)) =>
        /\ inFlight' = inFlight
        /\ page' = [page EXCEPT !.error =
                        "Please upload both CV and Job Description files"]]_vars

\* C25 witness: handleAnalyze has run with a CV, no job description and a
\* result on display
C25_Witness ==
    /\ last.kind = "analyze"
    /\ page.cvFile.present
    /\ ~page.jobFile.present
    /\ HasResult
    /\ ~page.isAnalyzing
    /\ inFlight = <<>>
    /\ page.error = MSG_BOTH_FILES

\* a declared type other than application/pdf, or a size above 5 MiB
FailsGate(f) == f.type # "application/pdf" \/ f.size > 5 * 1024 * 1024

\* the step is a select or a drop of a file
Offers == last'.kind \in {"select", "drop"} /\ last'.file.present

OtherType(type) == IF type = "cv" THEN "job" ELSE "cv"

\* C26: a selected or dropped file that fails the gate sets the error and
\* leaves both slots as they were; one that passes clears the error and
\* replaces the slot of its type only, and leaves the other slot, result
\* and isAnalyzing as they were; every file in a slot and every file sent
\* passes the gate.
C26_OnlyValidFilesStored ==
    /\ [][Offers =>
            IF FailsGate(last'.file)
            THEN /\ page'.error # NoMessage
                 /\ page'.cvFile = page.cvFile
                 /\ page'.jobFile = page.jobFile
            ELSE /\ page'.error = NoMessage
                 /\ SlotOf(page', last'.type) = last'.file
                 /\ SlotOf(page', OtherType(last'.type))
                       = SlotOf(page, OtherType(last'.type))
                 /\ page'.result = page.result
                 /\ page'.isAnalyzing = page.isAnalyzing]_vars
    /\ [](\A type \in UploadTypes :
            SlotOf(page, type).present => ~FailsGate(SlotOf(page, type)))
    /\ [](\A i \in 1 .. Len(inFlight) :
            ~FailsGate(inFlight[i].cv) /\ ~FailsGate(inFlight[i].jd))

\* C26 witness: a PDF over the ceiling was selected for the CV slot, which
\* still holds the PDF accepted before
C26_Witness ==
    /\ last = Event("select", "cv", PdfOfSize("cv text", MAX_FILE_SIZE + 1))
    /\ page.cvFile = PdfOfSize("cv text", MAX_FILE_SIZE - 1)
    /\ page.error = MSG_SIZE_LIMIT

\* C27: at most one analyze mutation is in flight, and one is started only
\* while isAnalyzing is false and both slots are filled.
C27_OneRequestInFlight ==
    /\ [](Len(inFlight) <= 1)
    /\ [][StartsRequest =>
            /\ ~page.isAnalyzing
            /\ page.cvFile.present
            /\ page.jobFile.present]_vars

\* C27 witness: during an analysis a file was removed and another selected
\* in its place, and the one mutation is still in flight
C27_Witness ==
    /\ Len(inFlight) = 1
    /\ page.isAnalyzing
    /\ last.kind = "select"
    /\ page.cvFile.present
    /\ page.jobFile.present
    /\ formDataOf(page) # inFlight[1]

\* C28: while a result is displayed, both slots are filled and hold the two
\* files of the request that produced the result.
C28_ResultWithItsFiles ==
    HasResult =>
        /\ page.cvFile.present
        /\ page.jobFile.present
        /\ formDataOf(page) = shownFor

\* the messages of validatePDF
ValidationMessages == {MSG_ONLY_PDF, MSG_SIZE_LIMIT}

\* C29 as stated: result and error are never both set.
C29_Original == ~(HasResult /\ page.error # NoMessage)

\* C29 amended: starting an analysis clears result and error; an analysis
\* that ends sets result and leaves error as it is, or sets error and
\* leaves result null; and an error displayed with a result is a message
\* of validatePDF, never the message of a failed analysis.
C29_ResultOnlyWithValidationError ==
    /\ [][StartsRequest =>
            page'.result = JNull /\ page'.error = NoMessage]_vars
    /\ [][EndsRequest =>
            \/ ~Falsy(page'.result) /\ page'.error = page.error
            \/ page'.result = JNull /\ page.result = JNull
                  /\ page'.error # NoMessage]_vars
    /\ []((HasResult /\ page.error # NoMessage) =>
            page.error \in ValidationMessages)

\* C29 witness: a text file was selected during the analysis, and its
\* message is displayed with the result
C29_Witness ==
    /\ last.kind = "settle"
    /\ HasResult
    /\ page.error = MSG_ONLY_PDF

\* C30: the page accepts an offered file exactly when pdfFileSchema accepts
\* it, and every file the page sends is accepted by the input schema of the
\* endpoint.
C30_SameDecision ==
    /\ (last.kind \in {"select", "drop"} /\ last.file.present) =>
            (SlotOf(page, last.type) = last.file
                <=> pdfFileSchema(last.file) = <<>>)
    /\ \A i \in 1 .. Len(inFlight) : inputAccepted(inFlight[i])

====
